---------------------------- MODULE Spec2Model ----------------------------
(***************************************************************************)
(* A state-machine model of the marketplace pipeline's core subsystems:    *)
(* the token-bucket rate limiters, the distributed (Redis) limiter, the    *)
(* alert matcher, the listing/alert repository, the Kafka consumer manager *)
(* and the WebSocket manager.  Each subsystem has its own specification    *)
(* (SpecLimiter, SpecDist, ...); the variables of the other subsystems are *)
(* parked at a fixed value and left unchanged.                             *)
(***************************************************************************)
EXTENDS Integers, Sequences, FiniteSets, TLC

VARIABLES
    \* ---- in-process rate limiters (scraper, API middleware, shared) ----
    clock,            \* time.monotonic() / time.time(), in ticks
    cfg,              \* the limiter constructed (kind) and its constructor arguments
    tokens,           \* scraper RateLimiter.tokens, in token units
    last_refill_time, \* scraper RateLimiter.last_refill_time, in ticks
    wpc,              \* per caller of wait(): "idle" or "sleeping"
    wakeAt,           \* per caller: the tick at which asyncio.sleep returns
    waitLog,          \* wait_time computed by each wait() call since the limiter
                      \* was constructed or reset, in call order
    freshAt,          \* the tick of that construction or reset
    api_tokens,       \* API RateLimiter.tokens: client_id -> (last_updated, tokens)
    apiCalls,         \* per client, since its state was created: when, and what
                      \* is_allowed has returned
    sh_tokens,        \* shared RateLimiter.tokens
    sh_last_refill,   \* shared RateLimiter.last_refill
    \* ---- DistributedRateLimiter: one Redis store, several processes ----
    redis,            \* the store: tokens_key and last_refill_key
    dpc,              \* per process: its position in wait()
    dloc,             \* per process: the locals tokens, last_refill, now, wait_time
    granted,          \* number of wait() calls that returned with a token
    \* ---- AlertMatcher ----
    evaluation,       \* the _check_alert_match call: arguments and result
    \* ---- AlertRepository and its database ----
    alertsTable,      \* the rows of the alerts table
    assoc,            \* committed listing_alerts rows: (listing, alert) -> count
    rpc,              \* per processor: its position in match_listing_to_alerts
    rloc,             \* per processor: listing, alerts left, uncommitted rows
    evaluated,        \* the (listing, alert) pairs whose evaluation has ended
    listingStatus,    \* the status column of each row of the listings table
    repoClock,        \* datetime.utcnow(), in ticks
    report,           \* the last return of match_listing_to_alerts: the
                      \* listing, the alerts returned and the call's "now"
    \* ---- KafkaConsumerManager, its broker and its worker pool ----
    topicLog,         \* broker: topic -> the payloads produced, in order
    busHandlers,      \* self.handlers: topic -> handler names
    busRunning,       \* self.running
    busStopping,      \* stop() is waiting in thread.join
    busConsumers,     \* the keys of self.consumers
    threadPc,         \* per topic: the position of its _consume_loop thread
    offset,           \* per topic: how many messages its consumer has polled
    poolOpen,         \* thread_pool accepts submissions
    tasks,            \* the calls submitted to thread_pool, in order
    observed,         \* (handler, value) pairs whose handler body has run
    counters,         \* MESSAGES_PROCESSED: topic -> result -> count
    consumedLog,      \* what the loops did with each message polled
    liveThreads,      \* per topic: _consume_loop threads started and not exited
    openConsumers,    \* per topic: consumers created and not closed
    committed,        \* broker: per topic, the offset committed for the group
    health,           \* the last value given to health_check_callback
    brokerErrors,     \* the broker errors the loops have seen
    \* ---- WebSocketManager ----
    active,           \* self.active_connections: category -> set of sockets
    hpc,              \* per socket: the position of its handle_connection
    hcat,             \* per socket: the category argument of handle_connection
    hjoin,            \* per socket: the task its _stop_kafka_consumer awaits
    gone,             \* sockets whose client has closed
    wsRunning,        \* self.running
    wsTask,           \* self.kafka_consumer_task (0 is None)
    wsConsumer,       \* self.kafka_consumer (0 is None), named by its task
    taskPc,           \* per consumption task: its position
    nextTask,         \* the number of the next task created
    consumerStopped,  \* per consumer: stop() has been called on it
    cancelReq,        \* per task: cancel() has been called on it
    busQueue,         \* events on the bus not yet consumed
    nextEvent,        \* the number of the next event published
    sweep,            \* per task: the broadcast in progress
    received,         \* per socket: the events sent to it
    evt,              \* per event: category, handling state, and the sockets
                      \* registered for it throughout its handling
    lastReg,          \* the last registration: was a task live before, after
    hwant,            \* per socket: the category its last filter command named
    broadcasts,       \* the broadcast calls that have ended, each with the
                      \* sockets it attempted and the set it left
    deliveries,       \* per socket and event: the sends that succeeded
    closer,           \* the close_all call: its position, the task it awaits,
                      \* the sockets it has still to close and has closed
    \* ---- the WebSocket routes and the categories of the broadcasts ----
    routeTable,       \* active_connections: category -> sockets registered
    routeOf,          \* per socket: where its route handler is, its category
    routeQueue,       \* messages of the subscribed topics not yet consumed
    routeNext,        \* the number of the next message published
    routeGot,         \* per socket: the messages sent to it
    routeHandled      \* the messages the loop has handled, each with the
                      \* sockets that were registered through /ws/alerts

limVars == <<clock, cfg, tokens, last_refill_time, wpc, wakeAt, waitLog, freshAt,
             api_tokens, apiCalls, sh_tokens, sh_last_refill>>

distVars == <<redis, dpc, dloc, granted>>

matchVars == <<evaluation>>

repoVars == <<alertsTable, assoc, rpc, rloc, evaluated, listingStatus,
              repoClock, report>>

\* What only the clock and the return of a matching call change
repoAux == <<repoClock, report>>

busVars == <<topicLog, busHandlers, busRunning, busStopping, busConsumers,
             threadPc, offset, poolOpen, tasks, observed, counters, consumedLog,
             liveThreads, openConsumers, committed, health, brokerErrors>>

\* What only start(), stop(), the end of a loop, a commit and a broker
\* error change
busAux == <<liveThreads, openConsumers, committed, health, brokerErrors>>

wsVars == <<active, hpc, hcat, hjoin, gone, wsRunning, wsTask, wsConsumer, taskPc,
            nextTask, consumerStopped, cancelReq, busQueue, nextEvent, sweep,
            received, evt, lastReg, hwant, broadcasts, deliveries, closer>>

\* What the actions before the first client command leave alone
wsAux == <<hwant, broadcasts, deliveries, closer>>

routeVars == <<routeTable, routeOf, routeQueue, routeNext, routeGot,
               routeHandled>>

vars == <<limVars, distVars, matchVars, repoVars, busVars, wsVars, routeVars>>

\* What an action of one subsystem leaves alone: the other subsystems.
otherLim == <<distVars, matchVars, repoVars, busVars, wsVars,
    routeVars>>
otherDist == <<matchVars, repoVars, busVars, wsVars,
    routeVars>>
otherMatch == <<limVars, distVars, repoVars, busVars, wsVars,
    routeVars>>
otherRepo == <<limVars, distVars, matchVars, busVars, wsVars,
    routeVars>>
otherBus == <<limVars, distVars, matchVars, repoVars, wsVars,
    routeVars>>
otherWs == <<limVars, distVars, matchVars, repoVars, busVars, routeVars>>
otherRoute == <<limVars, distVars, matchVars, repoVars, busVars, wsVars>>


Min(a, b) == IF a <= b THEN a ELSE b
Max(a, b) == IF a >= b THEN a ELSE b

(***************************************************************************)
(* Units.  Token counts are real numbers in the code; the model keeps them *)
(* exact as integers in units of 1/TokenUnit token, and time in ticks of   *)
(* 1/TokenUnit second, so that elapsed * rate is a whole number of units.  *)
(* TokenUnit is a multiple of every rate of Rates, which keeps             *)
(* (1 - tokens) / rate a whole number of ticks.                            *)
(***************************************************************************)
Resolution == 2
TokenUnit == 2 * Resolution
Rates == {1, 2}
\* burst_size: <<>> is None (the default), <<n>> is an explicit burst of n
Bursts == {<<>>, <<1>>, <<2>>}
MaxClock == 4
MaxCalls == 4
NumWaiters == 2
MaxConsume == 2

\* The three limiter classes are independent objects: a behaviour constructs
\* one of them and calls only its operations.
LimiterKinds == {"scraper", "api", "shared"}
AllKinds == LimiterKinds \cup {"distributed"}
Waiters == 1..NumWaiters
Clients == {"c1", "c2"}

\* RateLimiter.__init__: burst_size defaults to max(2, int(2 * requests_per_second))
BurstSize(rate, burst) == IF burst = <<>> THEN Max(2, 2 * rate) ELSE burst[1]

Capacity == BurstSize(cfg.rate, cfg.burst) * TokenUnit

----------------------------------------------------------------------------
(* Scraper RateLimiter (services/scraper/src/utils/rate_limiter.py)        *)

\* The refill of wait(): tokens after adding time_passed * rate, capped.
Refilled(tok, last, now, rate, cap) == Min(tok + (now - last) * rate, cap)

\* wait_time = (1 - tokens) / requests_per_second, in ticks
MutWaitTimeNoRate(tok, rate) == TokenUnit - tok
WaitTime(tok, rate) == (TokenUnit - tok) \div rate

\* The else branch of wait(): the bucket is emptied.
MutEmptyKeeps(tok) == tok
EmptyBucket(tok) == 0

\* self.last_refill_time = now + wait_time (line 65): the refill clock is
\* put at the moment the waiter's token will have arrived
MutStampNow(now, wt) == now
RefillStamp(now, wt) == now + wt

\* wait(): the critical section under self.lock (no await inside it).
Wait(w) ==
    /\ cfg.kind = "scraper"
    /\ cfg.rate > 0
    /\ wpc[w] = "idle"
    /\ Len(waitLog) < MaxCalls
    /\ LET now == clock
           t   == Refilled(tokens, last_refill_time, now, cfg.rate, Capacity)
       IN  IF t >= TokenUnit
           THEN /\ tokens' = t - TokenUnit
                /\ last_refill_time' = now
                /\ waitLog' = Append(waitLog, [at |-> now, wait |-> 0])
                /\ UNCHANGED <<wpc, wakeAt>>
           ELSE LET wt == WaitTime(t, cfg.rate)
                IN  /\ tokens' = EmptyBucket(t)
                    /\ last_refill_time' = RefillStamp(now, wt)
                    /\ waitLog' = Append(waitLog, [at |-> now, wait |-> wt])
                    /\ wpc' = [wpc EXCEPT ![w] = "sleeping"]
                    /\ wakeAt' = [wakeAt EXCEPT ![w] = now + wt]
    /\ UNCHANGED <<clock, cfg, freshAt, api_tokens, apiCalls, sh_tokens, sh_last_refill>>
    /\ UNCHANGED otherLim

\* wait() on a limiter constructed with requests_per_second <= 0, which
\* __init__ stores as given: with rate 0 the division of line 63 raises
\* ZeroDivisionError after lines 54-55; with a negative rate wait_time is
\* negative and the caller is let through at once (line 67)
WaitNonPositiveRate(w) ==
    /\ cfg.kind = "scraper"
    /\ cfg.rate <= 0
    /\ wpc[w] = "idle"
    /\ Len(waitLog) < MaxCalls
    /\ LET now == clock
           t   == Refilled(tokens, last_refill_time, now, cfg.rate, Capacity)
       IN  IF t >= TokenUnit
           THEN /\ tokens' = t - TokenUnit
                /\ last_refill_time' = now
                /\ waitLog' = Append(waitLog, [at |-> now, wait |-> 0])
           ELSE IF cfg.rate = 0
           THEN /\ tokens' = t
                /\ last_refill_time' = now
                /\ UNCHANGED waitLog
           ELSE LET wt == 0 - ((TokenUnit - t) \div (0 - cfg.rate))
                IN  /\ tokens' = EmptyBucket(t)
                    /\ last_refill_time' = now + wt
                    /\ waitLog' = Append(waitLog, [at |-> now, wait |-> wt])
    /\ UNCHANGED <<clock, cfg, wpc, wakeAt, freshAt, api_tokens, apiCalls, sh_tokens,
                   sh_last_refill>>
    /\ UNCHANGED otherLim

\* await asyncio.sleep(wait_time) returns once wait_time has elapsed.
WaitReturn(w) ==
    /\ wpc[w] = "sleeping"
    /\ clock >= wakeAt[w]
    /\ wpc' = [wpc EXCEPT ![w] = "idle"]
    /\ wakeAt' = [wakeAt EXCEPT ![w] = 0]
    /\ UNCHANGED <<clock, cfg, tokens, last_refill_time, waitLog, freshAt,
                   api_tokens, apiCalls, sh_tokens, sh_last_refill>>
    /\ UNCHANGED otherLim

\* reset()
Reset ==
    /\ cfg.kind = "scraper"
    /\ tokens' = Capacity
    /\ last_refill_time' = clock
    /\ waitLog' = <<>>
    /\ freshAt' = clock
    /\ UNCHANGED <<clock, cfg, wpc, wakeAt, api_tokens, apiCalls, sh_tokens, sh_last_refill>>
    /\ UNCHANGED otherLim

----------------------------------------------------------------------------
(* API middleware RateLimiter (services/api/src/middleware/rate_limit.py)  *)

Absent == [present |-> FALSE, last |-> 0, tok |-> 0]

AfterAllowed(t) == t - TokenUnit

NoCalls == [created |-> 0, allowed |-> 0, refused |-> FALSE,
            last |-> "none", hint |-> 0, hintAt |-> 0]

\* get_retry_after(client_id), in ticks: tokens_needed * per / rate for a
\* client that has a state, 0 for one that has none; it reads self.tokens
\* and writes nothing.
MutRetryHalf(st, rate) ==
    IF ~st.present THEN 0 ELSE (TokenUnit - st.tok) \div (2 * rate)
GetRetryAfter(st, rate) ==
    IF ~st.present THEN 0 ELSE (TokenUnit - st.tok) \div rate

\* is_allowed(client_id); the effective rate is rate / per tokens a second.
\* A refusal is followed at once, in dispatch, by get_retry_after(client_id),
\* whose result the rejection carries; with a rate of 0 that call divides by
\* zero and the request ends in the exception.
IsAllowed(c) ==
    /\ cfg.kind = "api"
    /\ LET now == clock
       IN  IF ~api_tokens[c].present
           THEN /\ api_tokens' = [api_tokens EXCEPT
                      ![c] = [present |-> TRUE, last |-> now, tok |-> Capacity]]
                /\ apiCalls' = [apiCalls EXCEPT
                      ![c] = [created |-> now, allowed |-> 1,
                              refused |-> FALSE, last |-> "allowed",
                              hint |-> 0, hintAt |-> 0]]
           ELSE LET st == api_tokens[c]
                    nt == Min(Capacity, st.tok + (now - st.last) * cfg.rate)
                IN  IF nt >= TokenUnit
                    THEN /\ api_tokens' = [api_tokens EXCEPT
                              ![c] = [present |-> TRUE, last |-> now,
                                      tok |-> AfterAllowed(nt)]]
                         /\ apiCalls' = [apiCalls EXCEPT
                                           ![c].allowed = @ + 1,
                                           ![c].last = "allowed"]
                    ELSE /\ api_tokens' = [api_tokens EXCEPT
                              ![c] = [present |-> TRUE, last |-> now,
                                      tok |-> nt]]
                         /\ apiCalls' = [apiCalls EXCEPT
                              ![c].refused = TRUE,
                              ![c].last = IF cfg.rate = 0 THEN "error"
                                          ELSE "refused",
                              ![c].hint = IF cfg.rate = 0 THEN 0
                                          ELSE GetRetryAfter(api_tokens'[c],
                                                             cfg.rate),
                              ![c].hintAt = now]
    /\ UNCHANGED <<clock, cfg, tokens, last_refill_time, wpc, wakeAt, waitLog,
                   freshAt, sh_tokens, sh_last_refill>>
    /\ UNCHANGED otherLim

----------------------------------------------------------------------------
(* Shared RateLimiter (shared/utils/rate_limit.py)                         *)

\* _refill()
ShRefilled(tok, last, now) == Min(Capacity, tok + (now - last) * cfg.rate)

CanConsume(have, n) == have >= n

\* consume(tokens = n)
Consume(n) ==
    /\ cfg.kind = "shared"
    /\ LET now == clock
           t   == ShRefilled(sh_tokens, sh_last_refill, now)
       IN  /\ sh_last_refill' = now
           /\ IF CanConsume(t, n * TokenUnit)
              THEN sh_tokens' = t - n * TokenUnit
              ELSE sh_tokens' = t
    /\ UNCHANGED <<clock, cfg, tokens, last_refill_time, wpc, wakeAt, waitLog,
                   freshAt, api_tokens, apiCalls>>
    /\ UNCHANGED otherLim

\* Time passes.
Tick ==
    /\ clock < MaxClock
    /\ clock' = clock + 1
    /\ UNCHANGED <<cfg, tokens, last_refill_time, wpc, wakeAt, waitLog, freshAt,
                   api_tokens, apiCalls, sh_tokens, sh_last_refill>>
    /\ UNCHANGED otherLim

LimInit ==
    /\ clock = 0
    /\ cfg \in [kind : AllKinds, rate : Rates, burst : Bursts]
    /\ tokens = Capacity
    /\ last_refill_time = 0
    /\ wpc = [w \in Waiters |-> "idle"]
    /\ wakeAt = [w \in Waiters |-> 0]
    /\ waitLog = <<>>
    /\ freshAt = 0
    /\ api_tokens = [c \in Clients |-> Absent]
    /\ apiCalls = [c \in Clients |-> NoCalls]
    /\ sh_tokens = Capacity
    /\ sh_last_refill = 0

LimNext ==
    \/ \E w \in Waiters : Wait(w)
    \/ \E w \in Waiters : WaitReturn(w)
    \/ Reset
    \/ \E c \in Clients : IsAllowed(c)
    \/ \E n \in 1..MaxConsume : Consume(n)
    \/ Tick

\* The arguments the three constructors take as they come: none of them
\* checks its rate or its capacity
AnyRates == {0 - 1, 0, 1}
AnyBursts == {<<>>, <<0 - 1>>, <<0>>, <<1>>}

LimInitAny ==
    /\ clock = 0
    /\ cfg \in [kind : LimiterKinds, rate : AnyRates, burst : AnyBursts]
    /\ tokens = Capacity
    /\ last_refill_time = 0
    /\ wpc = [w \in Waiters |-> "idle"]
    /\ wakeAt = [w \in Waiters |-> 0]
    /\ waitLog = <<>>
    /\ freshAt = 0
    /\ api_tokens = [c \in Clients |-> Absent]
    /\ apiCalls = [c \in Clients |-> NoCalls]
    /\ sh_tokens = Capacity
    /\ sh_last_refill = 0

LimAnyNext ==
    \/ \E w \in Waiters : Wait(w)
    \/ \E w \in Waiters : WaitNonPositiveRate(w)
    \/ \E w \in Waiters : WaitReturn(w)
    \/ Reset
    \/ \E c \in Clients : IsAllowed(c)
    \/ \E n \in 1..MaxConsume : Consume(n)
    \/ Tick

\* The scraper's use of its limiter (services/scraper/src/main.py lines 81
\* and 108): concurrent tasks call wait(), nothing calls reset()
LimWaitNext ==
    \/ \E w \in Waiters : Wait(w)
    \/ \E w \in Waiters : WaitReturn(w)
    \/ Tick

(***************************************************************************)
(* C1.  Token bucket conservation: for each of the three limiters, the     *)
(* stored token count is within [0, capacity] whenever a call has returned *)
(* (every state of the model lies between two calls' critical sections),   *)
(* also when a caller of wait() arrives while an earlier waiter has pushed *)
(* last_refill_time into the future.                                       *)
(***************************************************************************)
TokensWithinCapacity ==
    /\ 0 <= tokens /\ tokens <= Capacity
    /\ \A c \in Clients :
          api_tokens[c].present =>
              0 <= api_tokens[c].tok /\ api_tokens[c].tok <= Capacity
    /\ 0 <= sh_tokens /\ sh_tokens <= Capacity

\* A wait() call found the refill timestamp in the future: its refilled
\* token count was negative, so it computed a wait longer than 1/rate.
WitnessArrivedBehindWaiter ==
    /\ cfg.kind = "scraper"
    /\ \E i \in 1..Len(waitLog) : waitLog[i].wait * cfg.rate > TokenUnit
    /\ tokens = 0

(***************************************************************************)
(* C2.  Burst property: on a fresh scraper limiter with burst C and no     *)
(* time elapsing, the first C wait() calls wait 0 and call C+1 waits at    *)
(* least 1/rate seconds; with rate 2 and burst 2 the third call waits      *)
(* exactly half a second.                                                  *)
(***************************************************************************)
BurstThenWait ==
    cfg.kind = "scraper" =>
      LET C == BurstSize(cfg.rate, cfg.burst)
      IN  \A i \in 1..Len(waitLog) :
            waitLog[i].at = freshAt =>
              /\ (i <= C => waitLog[i].wait = 0)
              /\ (i = C + 1 => waitLog[i].wait * cfg.rate >= TokenUnit)
              /\ (i = 3 /\ cfg.rate = 2 /\ cfg.burst = <<2>>
                     => 2 * waitLog[i].wait = TokenUnit)

WitnessThirdImmediateWait ==
    /\ cfg.kind = "scraper" /\ cfg.rate = 2 /\ cfg.burst = <<2>>
    /\ Len(waitLog) >= 3
    /\ \A i \in 1..3 : waitLog[i].at = freshAt
    /\ waitLog[1].wait = 0 /\ waitLog[2].wait = 0 /\ waitLog[3].wait > 0

----------------------------------------------------------------------------
(* DistributedRateLimiter.wait (services/scraper/src/utils/rate_limiter.py) *)
(* Every await self.redis.get / set is a round trip of its own; self.lock   *)
(* is an asyncio.Lock of one process and orders nothing between processes.  *)

NumProcs == 2
MaxGrants == 3
Procs == 1..NumProcs

Unset == [set |-> FALSE, v |-> 0]
Stored(x) == [set |-> TRUE, v |-> x]
NoLocals == [tokens |-> 0, last_refill |-> 0, now |-> 0, wait_time |-> 0]

\* tokens = await self.redis.get(self.tokens_key); float(tokens) if tokens else burst
DistGetTokens(p) ==
    /\ dpc[p] = "idle"
    /\ granted < MaxGrants
    /\ dloc' = [dloc EXCEPT ![p].tokens =
                   IF redis.tokens.set THEN redis.tokens.v ELSE Capacity]
    /\ dpc' = [dpc EXCEPT ![p] = "get_last"]
    /\ UNCHANGED <<redis, granted, limVars>>
    /\ UNCHANGED otherDist

\* last_refill = await self.redis.get(self.last_refill_key), then the refill
\* computation and the choice of branch, all without a further await.
DistGetLast(p) ==
    /\ dpc[p] = "get_last"
    /\ LET now  == clock
           last == IF redis.last_refill.set THEN redis.last_refill.v ELSE now
           t    == Min(dloc[p].tokens + (now - last) * cfg.rate, Capacity)
       IN  IF t >= TokenUnit
           THEN /\ dloc' = [dloc EXCEPT ![p] =
                       [tokens |-> t - TokenUnit, last_refill |-> last,
                        now |-> now, wait_time |-> 0]]
                /\ dpc' = [dpc EXCEPT ![p] = "set_tokens"]
           ELSE /\ dloc' = [dloc EXCEPT ![p] =
                       [tokens |-> 0, last_refill |-> last,
                        now |-> now, wait_time |-> WaitTime(t, cfg.rate)]]
                /\ dpc' = [dpc EXCEPT ![p] = "set_tokens_empty"]
    /\ UNCHANGED <<redis, granted, limVars>>
    /\ UNCHANGED otherDist

\* await self.redis.set(self.tokens_key, ...)
DistSetTokens(p) ==
    /\ dpc[p] \in {"set_tokens", "set_tokens_empty"}
    /\ redis' = [redis EXCEPT !.tokens = Stored(dloc[p].tokens)]
    /\ dpc' = [dpc EXCEPT ![p] =
                 IF dpc[p] = "set_tokens" THEN "set_last" ELSE "set_last_empty"]
    /\ UNCHANGED <<dloc, granted, limVars>>
    /\ UNCHANGED otherDist

\* await self.redis.set(self.last_refill_key, str(now)); return
DistSetLastAndReturn(p) ==
    /\ dpc[p] = "set_last"
    /\ redis' = [redis EXCEPT !.last_refill = Stored(dloc[p].now)]
    /\ dpc' = [dpc EXCEPT ![p] = "idle"]
    /\ dloc' = [dloc EXCEPT ![p] = NoLocals]
    /\ granted' = granted + 1
    /\ UNCHANGED limVars
    /\ UNCHANGED otherDist

\* await self.redis.set(self.last_refill_key, str(now + wait_time)), then sleep
DistSetLastAndSleep(p) ==
    /\ dpc[p] = "set_last_empty"
    /\ redis' = [redis EXCEPT
                   !.last_refill = Stored(dloc[p].now + dloc[p].wait_time)]
    /\ dpc' = [dpc EXCEPT ![p] = "sleeping"]
    /\ UNCHANGED <<dloc, granted, limVars>>
    /\ UNCHANGED otherDist

\* asyncio.sleep(wait_time) is over: back to the top of the while loop.
DistWake(p) ==
    /\ dpc[p] = "sleeping"
    /\ clock >= dloc[p].now + dloc[p].wait_time
    /\ dpc' = [dpc EXCEPT ![p] = "idle"]
    /\ dloc' = [dloc EXCEPT ![p] = NoLocals]
    /\ UNCHANGED <<redis, granted, limVars>>
    /\ UNCHANGED otherDist

\* Time passes.
DistTick ==
    /\ clock < MaxClock
    /\ clock' = clock + 1
    /\ UNCHANGED <<cfg, tokens, last_refill_time, wpc, wakeAt, waitLog, freshAt,
                   api_tokens, apiCalls, sh_tokens, sh_last_refill>>
    /\ UNCHANGED distVars
    /\ UNCHANGED otherDist

DistPark ==
    /\ redis = [tokens |-> Unset, last_refill |-> Unset]
    /\ dpc = [p \in Procs |-> "idle"]
    /\ dloc = [p \in Procs |-> NoLocals]
    /\ granted = 0

DistNext ==
    \/ \E p \in Procs : DistGetTokens(p)
    \/ \E p \in Procs : DistGetLast(p)
    \/ \E p \in Procs : DistSetTokens(p)
    \/ \E p \in Procs : DistSetLastAndReturn(p)
    \/ \E p \in Procs : DistSetLastAndSleep(p)
    \/ \E p \in Procs : DistWake(p)
    \/ DistTick


(***************************************************************************)
(* C3.  The shared budget: the read of the stored state, the refill and    *)
(* the write-back of DistributedRateLimiter.wait() are one atomic step, so *)
(* that by time t at most C + R*t tokens have been granted to all          *)
(* processes together.                                                     *)
(***************************************************************************)
SharedBudgetRespected ==
    granted * TokenUnit <= Capacity + cfg.rate * clock

----------------------------------------------------------------------------
(* AlertMatcher._check_alert_match                                         *)
(* (services/processor/src/alerting/alert_matcher.py)                      *)
(* Strings are sequences of one-character strings.  An optional value is a *)
(* record [k, v]: k = "none" is Python's None, k = "missing" an absent     *)
(* dictionary key, k = "val" a value v.                                    *)

NoneStr == [k |-> "none", v |-> <<>>]
MissingStr == [k |-> "missing", v |-> <<>>]
Str(s) == [k |-> "val", v |-> s]
NoneNum == [k |-> "none", v |-> 0]
Num(n) == [k |-> "val", v |-> n]

\* str.lower()
LowerChar(c) ==
    CASE c = "A" -> "a" [] c = "B" -> "b" [] c = "C" -> "c" [] c = "F" -> "f"
      [] c = "L" -> "l" [] c = "N" -> "n" [] c = "S" -> "s" [] c = "Y" -> "y"
      [] OTHER -> c
Lower(s) == [i \in 1..Len(s) |-> LowerChar(s[i])]

\* a in b, for strings
IsSubstr(a, b) ==
    \E i \in 0..(Len(b) - Len(a)) :
        \A j \in 1..Len(a) : b[i + j] = a[j]

\* str.split(): the maximal runs of non-whitespace characters
RECURSIVE SplitFrom(_, _, _)
SplitFrom(s, i, word) ==
    IF i > Len(s)
    THEN IF word = <<>> THEN <<>> ELSE <<word>>
    ELSE IF s[i] = " "
         THEN (IF word = <<>> THEN <<>> ELSE <<word>>) \o SplitFrom(s, i + 1, <<>>)
         ELSE SplitFrom(s, i + 1, Append(word, s[i]))
Split(s) == SplitFrom(s, 1, <<>>)

\* dict.get(key, ""): the default replaces a missing key only, not a None
GetOrEmpty(field) == IF field.k = "missing" THEN Str(<<>>) ELSE field

\* The price checks (lines 133-143)
MutMinPriceStrict(listing, alert) ==
    listing.price.k = "val" /\ listing.price.v > alert.min_price.v
MinPriceOk(listing, alert) ==
    listing.price.k = "val" /\ listing.price.v >= alert.min_price.v
MaxPriceOk(listing, alert) ==
    listing.price.k = "val" /\ listing.price.v <= alert.max_price.v

\* The category check (lines 146-158): "category", "suggested_category" or ""
CategoryName(listing, alert) ==
    IF listing.category.k = "val"
       /\ Lower(alert.category.v) = Lower(listing.category.v)
    THEN "category"
    ELSE IF listing.suggested.k = "val" /\ listing.suggested.v # <<>>
            /\ Lower(alert.category.v) = Lower(listing.suggested.v)
         THEN "suggested_category"
         ELSE ""

\* The search-term check (lines 161-187), for a title and description that
\* are strings: the name appended to matches, or "" for a failure.
SearchTermName(title, description, term, keywords) ==
    IF IsSubstr(term, title) \/ IsSubstr(term, description)
    THEN "search_term_exact"
    ELSE LET search_words == Split(term)
             matching_words ==
                 Cardinality({i \in 1..Len(search_words) :
                     \/ IsSubstr(search_words[i], title)
                     \/ IsSubstr(search_words[i], description)})
         IN  IF 2 * matching_words > Len(search_words)
             THEN "search_term_partial"
             ELSE IF \E i \in 1..Len(keywords) : IsSubstr(keywords[i], term)
                  THEN "search_term_keyword"
                  ELSE ""

\* listing.get("title", "").lower() raises AttributeError on a None
SearchTermRaises(listing) ==
    \/ GetOrEmpty(listing.title).k = "none"
    \/ GetOrEmpty(listing.description).k = "none"

\* The location check (lines 190-201)
LocationOk(listing, alert) ==
    /\ listing.location.k = "val"
    /\ LET alert_location == Lower(alert.location.v)
           listing_location == Lower(listing.location.v)
       IN  \/ IsSubstr(alert_location, listing_location)
           \/ IsSubstr(listing_location, alert_location)

\* Appending one criterion's outcome to (matches, non_matches)
Record(acc, specified, name, failName) ==
    IF ~specified THEN acc
    ELSE IF name # ""
         THEN [acc EXCEPT !.matches = Append(@, name)]
         ELSE [acc EXCEPT !.non_matches = Append(@, failName)]

\* is_match = len(non_matches) == 0 and len(matches) > 0
MutIsMatchVacuous(matches, non_matches) == Len(non_matches) = 0
IsMatch(matches, non_matches) == Len(non_matches) = 0 /\ Len(matches) > 0

Raised == [raised |-> TRUE, is_match |-> FALSE,
           matching_criteria |-> <<>>, non_matching_criteria |-> <<>>]

\* matches and non_matches when the search-term check begins (line 160)
BeforeSearchTerm(listing, alert) ==
    LET a0 == [matches |-> <<>>, non_matches |-> <<>>]
        a1 == Record(a0, alert.min_price.k = "val",
                     IF alert.min_price.k = "val" /\ MinPriceOk(listing, alert)
                     THEN "min_price" ELSE "", "min_price")
        a2 == Record(a1, alert.max_price.k = "val",
                     IF alert.max_price.k = "val" /\ MaxPriceOk(listing, alert)
                     THEN "max_price" ELSE "", "max_price")
    IN  Record(a2, alert.category.k = "val",
               IF alert.category.k = "val"
               THEN CategoryName(listing, alert) ELSE "", "category")

CheckAlertMatch(listing, alert) ==
    LET a3 == BeforeSearchTerm(listing, alert)
        a4 == Record(a3, alert.search_term.k = "val",
                     IF alert.search_term.k = "val" /\ ~SearchTermRaises(listing)
                     THEN SearchTermName(Lower(GetOrEmpty(listing.title).v),
                                         Lower(GetOrEmpty(listing.description).v),
                                         Lower(alert.search_term.v),
                                         listing.keywords)
                     ELSE "", "search_term")
        a5 == Record(a4, alert.location.k = "val",
                     IF alert.location.k = "val" /\ LocationOk(listing, alert)
                     THEN "location" ELSE "", "location")
    IN  IF alert.search_term.k = "val" /\ SearchTermRaises(listing)
        THEN Raised
        ELSE [raised |-> FALSE,
              is_match |-> IsMatch(a5.matches, a5.non_matches),
              matching_criteria |-> a5.matches,
              non_matching_criteria |-> a5.non_matches]

\* Example strings
S_furniture == <<"f","u","r","n","i","t","u","r","e">>
S_Furniture == <<"F","u","r","n","i","t","u","r","e">>
S_electronics == <<"e","l","e","c">>
S_sofa == <<"s","o","f","a">>
S_leather_sofa == <<"l","e","a","t","h","e","r"," ","s","o","f","a">>
S_Leather_Sofa_new == <<"L","e","a","t","h","e","r"," ","S","o","f","a"," ","n","e","w">>
S_red_sofa == <<"r","e","d"," ","s","o","f","a">>
S_lamp == <<"l","a","m","p">>
S_leather == <<"l","e","a","t","h","e","r">>
S_New_York == <<"N","Y">>
S_new_york_city == <<"n","y"," ","c","i","t","y">>
S_la == <<"l","a">>

\* The listings and alerts evaluated.  A scraped listing's description,
\* price, location and category are None when the page lacks the element
\* (services/scraper/src/scrapers/facebook_marketplace.py, lines 207-216).
ListingPrices == {NoneNum, Num(50), Num(100), Num(500), Num(2000)}
ListingCategories == {NoneStr, Str(S_furniture), Str(S_electronics)}
ListingSuggested == {NoneStr, Str(S_furniture)}
ListingTitles == {MissingStr, Str(S_Leather_Sofa_new), Str(S_red_sofa), Str(S_lamp)}
ListingDescriptions == {MissingStr, NoneStr, Str(S_leather)}
ListingKeywords == {<<>>, <<S_sofa>>}
ListingLocations == {NoneStr, Str(S_new_york_city), Str(S_la)}

Listings == [price : ListingPrices, category : ListingCategories,
             suggested : ListingSuggested, title : ListingTitles,
             description : ListingDescriptions, keywords : ListingKeywords,
             location : ListingLocations]

Alerts == [min_price : {NoneNum, Num(100)}, max_price : {NoneNum, Num(1000)},
           category : {NoneStr, Str(S_Furniture)},
           search_term : {NoneStr, Str(S_sofa), Str(S_leather_sofa)},
           location : {NoneStr, Str(S_New_York)}]

EmptyLists == [matches |-> <<>>, non_matches |-> <<>>]

NoEvaluation ==
    [done |-> FALSE,
     listing |-> [price |-> NoneNum, category |-> NoneStr, suggested |-> NoneStr,
                  title |-> MissingStr, description |-> MissingStr,
                  keywords |-> <<>>, location |-> NoneStr],
     alert |-> [min_price |-> NoneNum, max_price |-> NoneNum, category |-> NoneStr,
                search_term |-> NoneStr, location |-> NoneStr],
     result |-> Raised,
     locals |-> EmptyLists]

\* The local lists matches and non_matches when the call is left: by the
\* return, or by the exception of line 162 or 163
LocalsAtExit(listing, alert) ==
    LET r == CheckAlertMatch(listing, alert)
    IN  IF r.raised THEN BeforeSearchTerm(listing, alert)
        ELSE [matches |-> r.matching_criteria,
              non_matches |-> r.non_matching_criteria]

\* One call of _check_alert_match(listing, alert) on the arguments drawn
Evaluate ==
    /\ ~evaluation.done
    /\ evaluation' = [evaluation EXCEPT
           !.done = TRUE,
           !.result = CheckAlertMatch(evaluation.listing, evaluation.alert),
           !.locals = LocalsAtExit(evaluation.listing, evaluation.alert)]
    /\ UNCHANGED otherMatch

\* The arguments of the call: any listing, any alert
MatchInit ==
    evaluation \in [done : {FALSE}, listing : Listings, alert : Alerts,
                    result : {Raised}, locals : {EmptyLists}]

MatchPark == evaluation = NoEvaluation

Criteria == {"min_price", "max_price", "category", "search_term", "location"}

\* The criteria an alert specifies
Specified(alert) == {c \in Criteria : alert[c].k = "val"}

\* The text of a title or description; a listing without one has no text
TextOf(field) == IF field.k = "val" THEN Lower(field.v) ELSE <<>>

\* One criterion, taken alone, passes for the listing
Passes(c, listing, alert) ==
    CASE c = "min_price" -> MinPriceOk(listing, alert)
      [] c = "max_price" -> MaxPriceOk(listing, alert)
      [] c = "category" -> CategoryName(listing, alert) # ""
      [] c = "search_term" ->
            SearchTermName(TextOf(listing.title), TextOf(listing.description),
                           Lower(alert.search_term.v), listing.keywords) # ""
      [] c = "location" -> LocationOk(listing, alert)

(***************************************************************************)
(* C4.  Alert conjunction: for every listing and every alert, over all     *)
(* subsets of the five criteria being specified, _check_alert_match        *)
(* reports is_match = true if and only if the alert specifies at least one *)
(* criterion and every criterion it specifies individually passes.         *)
(***************************************************************************)
MatchIffAllSpecifiedPass ==
    evaluation.done =>
        ((~evaluation.result.raised /\ evaluation.result.is_match)
          <=> (/\ Specified(evaluation.alert) # {}
               /\ \A c \in Specified(evaluation.alert) :
                      Passes(c, evaluation.listing, evaluation.alert)))

(***************************************************************************)
(* C5.  Alert vacuity: an alert with none of min_price, max_price,         *)
(* category, search_term and location set never matches any listing,       *)
(* whatever the listing's fields are.                                      *)
(***************************************************************************)
NoCriteriaNeverMatches ==
    (evaluation.done /\ Specified(evaluation.alert) = {})
        => (~evaluation.result.raised /\ ~evaluation.result.is_match)

WitnessNoCriteriaRichListing ==
    /\ evaluation.done
    /\ Specified(evaluation.alert) = {}
    /\ evaluation.listing.price = Num(500)
    /\ evaluation.listing.category = Str(S_furniture)
    /\ evaluation.listing.title = Str(S_Leather_Sofa_new)
    /\ evaluation.listing.location = Str(S_new_york_city)
    /\ evaluation.result.matching_criteria = <<>>
    /\ evaluation.result.non_matching_criteria = <<>>

----------------------------------------------------------------------------
(* AlertRepository.match_listing_to_alerts                                 *)
(* (shared/repositories/alert_repository.py), run by several processors    *)
(* against one database.  listing_alerts has the composite primary key     *)
(* (listing_id, alert_id) (shared/models/marketplace.py).                  *)

NumAlerts == 2
NumListings == 2
NumProcessors == 2

AlertIds == 1..NumAlerts
ListingIds == 1..NumListings
Processors == 1..NumProcessors
Queries == {"sofa", "lamp"}

\* The listings handed to the repository: lower-case title, empty
\* description, and a location on every second one
ListingRow(id) ==
    [id |-> id,
     title |-> IF id = 2 THEN "lamp" ELSE "sofa",
     location |-> IF id % 2 = 0 THEN "ny" ELSE ""]

Pairs == ListingIds \X AlertIds

\* Line 88: listing.location is a Python str, which has no ilike
LocationFilterRaises(listing) == listing.location # ""

\* Lines 113-114: session.query(Alert.search_query) yields one Row per
\* distinct search_query; a Row is truthy and has no lower
QueryFilterRaises(table) == table # {}

\* Lines 108-119 with the other filters passing: the alerts whose
\* search_query is the title or the description
MatchingAlerts(table, listing) ==
    {a \in table : a.search_query \in {listing.title, ""}}

\* ListingStatus (shared/models/marketplace.py lines 46-52)
Statuses == {"NEW", "PROCESSED", "MATCHED", "ARCHIVED", "ERROR"}

\* The alert ids of a set of alert rows, in ascending order
RECURSIVE IdsInOrder(_, _)
IdsInOrder(ids, from) ==
    IF from > NumAlerts THEN <<>>
    ELSE (IF from \in ids THEN <<from>> ELSE <<>>) \o IdsInOrder(ids, from + 1)

NoCall == [listing |-> 0, todo |-> <<>>, pending |-> {}, seen |-> {}, now |-> 0,
           matched |-> {}]

NoReport == [listing |-> 0, alerts |-> {}, at |-> 0]

MaxRepoClock == 2

\* BaseRepository.create for an Alert
CreateAlert(a, q) ==
    /\ \A row \in alertsTable : row.id # a
    /\ alertsTable' = alertsTable \cup
                         {[id |-> a, search_query |-> q, last_matched_at |-> 0]}
    /\ UNCHANGED <<assoc, rpc, rloc, evaluated>>
    /\ UNCHANGED listingStatus
    /\ UNCHANGED repoAux
    /\ UNCHANGED otherRepo

\* The end of a call: the pairs it was evaluating have been evaluated
Finish(p, rows) ==
    /\ rpc' = [rpc EXCEPT ![p] = "idle"]
    /\ rloc' = [rloc EXCEPT ![p] = NoCall]
    /\ assoc' = rows
    /\ evaluated' = evaluated \cup rloc[p].seen

\* Lines 62-116: building the filters, which raises AttributeError for a
\* listing with a location and whenever the alerts table has a row
MatchBuildFilters(p, l) ==
    /\ rpc[p] = "idle"
    /\ LET listing == ListingRow(l)
           seen == {<<l, a.id>> : a \in {r \in alertsTable : r.search_query = listing.title}}
       IN  IF LocationFilterRaises(listing) \/ QueryFilterRaises(alertsTable)
           THEN /\ evaluated' = evaluated \cup seen
                /\ UNCHANGED <<rpc, rloc>>
           ELSE /\ rpc' = [rpc EXCEPT ![p] = "built"]
                /\ rloc' = [rloc EXCEPT ![p] = [NoCall EXCEPT !.listing = l, !.seen = seen]]
                /\ UNCHANGED evaluated
    /\ UNCHANGED <<alertsTable, assoc>>
    /\ UNCHANGED listingStatus
    /\ UNCHANGED repoAux
    /\ UNCHANGED otherRepo

\* Lines 118-128: the query runs; with no alert matching the call returns,
\* else now = datetime.utcnow()
MatchExecuteQuery(p) ==
    /\ rpc[p] = "built"
    /\ LET matching == MatchingAlerts(alertsTable, ListingRow(rloc[p].listing)) IN
       IF matching = {}
       THEN Finish(p, assoc)
       ELSE /\ rpc' = [rpc EXCEPT ![p] = "check"]
            /\ rloc' = [rloc EXCEPT ![p].todo = IdsInOrder({a.id : a \in matching}, 1),
                                    ![p].now = repoClock,
                                    ![p].matched = {a.id : a \in matching}]
            /\ UNCHANGED <<assoc, evaluated>>
    /\ UNCHANGED alertsTable
    /\ UNCHANGED listingStatus
    /\ UNCHANGED repoAux
    /\ UNCHANGED otherRepo

\* Lines 131-134: the existence check, on the committed rows and the
\* session's own
MatchCheckAssoc(p) ==
    /\ rpc[p] = "check"
    /\ rloc[p].todo # <<>>
    /\ LET pair == <<rloc[p].listing, Head(rloc[p].todo)>> IN
       IF assoc[pair] > 0 \/ pair \in rloc[p].pending
       THEN /\ rloc' = [rloc EXCEPT ![p].todo = Tail(@)]
            /\ UNCHANGED rpc
       ELSE /\ rpc' = [rpc EXCEPT ![p] = "insert"]
            /\ UNCHANGED rloc
    /\ UNCHANGED <<alertsTable, assoc, evaluated>>
    /\ UNCHANGED listingStatus
    /\ UNCHANGED repoAux
    /\ UNCHANGED otherRepo

\* Lines 138-147: the insert.  The primary key makes it wait for another
\* session's uncommitted row for the same pair, and raise IntegrityError
\* (the session is rolled back) when the row is committed.
MatchInsert(p) ==
    /\ rpc[p] = "insert"
    /\ LET pair == <<rloc[p].listing, Head(rloc[p].todo)>> IN
       /\ \A o \in Processors \ {p} : pair \notin rloc[o].pending
       /\ IF assoc[pair] > 0
          THEN Finish(p, assoc)
          ELSE /\ rpc' = [rpc EXCEPT ![p] = "check"]
               /\ rloc' = [rloc EXCEPT ![p].pending = @ \cup {pair},
                                       ![p].todo = Tail(@)]
               /\ UNCHANGED <<assoc, evaluated>>
    /\ UNCHANGED alertsTable
    /\ UNCHANGED listingStatus
    /\ UNCHANGED repoAux
    /\ UNCHANGED otherRepo

\* Line 147: alert.last_matched_at = now, for the alerts whose row this
\* call has inserted (inside "if not assoc_exists")
Stamped(rows, listing, pending, now) ==
    {IF <<listing, r.id>> \in pending
     THEN [r EXCEPT !.last_matched_at = now] ELSE r : r \in rows}

\* Lines 149-151: the commit, and the return of matching_alerts.  Alerts
\* matched, so line 125 has assigned listing.status = "MATCHED"; the commit
\* writes it when the listing object belongs to the session of the call.
MatchCommit(p) ==
    /\ rpc[p] = "check"
    /\ rloc[p].todo = <<>>
    /\ Finish(p, [pair \in Pairs |->
                    assoc[pair] + (IF pair \in rloc[p].pending THEN 1 ELSE 0)])
    /\ \E attached \in BOOLEAN :
          listingStatus' = IF attached
                           THEN [listingStatus EXCEPT ![rloc[p].listing] = "MATCHED"]
                           ELSE listingStatus
    /\ alertsTable' = Stamped(alertsTable, rloc[p].listing, rloc[p].pending,
                              rloc[p].now)
    /\ report' = [listing |-> rloc[p].listing, alerts |-> rloc[p].matched,
                  at |-> rloc[p].now]
    /\ UNCHANGED repoClock
    /\ UNCHANGED otherRepo

\* Time passes
RepoTick ==
    /\ repoClock < MaxRepoClock
    /\ repoClock' = repoClock + 1
    /\ UNCHANGED <<alertsTable, assoc, rpc, rloc, evaluated, listingStatus, report>>
    /\ UNCHANGED otherRepo

\* ListingRepository.update_status(listing_id, status)
\* (shared/repositories/listing_repository.py lines 98-128): one UPDATE
\* of the row, whatever its present status
UpdateStatus(l, status) ==
    /\ listingStatus' = [listingStatus EXCEPT ![l] = status]
    /\ UNCHANGED <<alertsTable, assoc, rpc, rloc, evaluated>>
    /\ UNCHANGED repoAux
    /\ UNCHANGED otherRepo

RepoPark ==
    /\ alertsTable = {}
    /\ assoc = [pair \in Pairs |-> 0]
    /\ rpc = [p \in Processors |-> "idle"]
    /\ rloc = [p \in Processors |-> NoCall]
    /\ evaluated = {}
    /\ listingStatus = [l \in ListingIds |-> "NEW"]
    /\ repoClock = 1
    /\ report = NoReport

RepoNext ==
    \/ \E a \in AlertIds, q \in Queries : CreateAlert(a, q)
    \/ \E p \in Processors, l \in ListingIds : MatchBuildFilters(p, l)
    \/ \E p \in Processors : MatchExecuteQuery(p)
    \/ \E p \in Processors : MatchCheckAssoc(p)
    \/ \E p \in Processors : MatchInsert(p)
    \/ \E p \in Processors : MatchCommit(p)
    \/ \E l \in ListingIds, status \in Statuses : UpdateStatus(l, status)
    \/ RepoTick

(***************************************************************************)
(* C6.  Match idempotence: evaluating the same (alert, listing) pair any   *)
(* number of times, sequentially or by two processors whose existence      *)
(* check and insert interleave, leaves exactly one listing_alerts row for  *)
(* that pair.                                                              *)
(***************************************************************************)
ExactlyOneRowPerEvaluatedPair ==
    \A pair \in evaluated : assoc[pair] = 1

----------------------------------------------------------------------------
(* KafkaConsumerManager (services/processor/src/kafka_consumer.py) with    *)
(* the handlers the processor registers (services/processor/src/main.py)   *)
(* and the publisher KafkaClient.publish_event (shared/utils/kafka.py).    *)
(* The broker keeps one log per topic; each topic's consumer reads its log *)
(* in order.                                                               *)

MaxPublished == 3

Topics == {"marketplace-listings-new", "marketplace-alerts"}

\* main.py lines 136-137
Registrations ==
    {<<"marketplace-listings-new", "process_new_listing">>,
     <<"marketplace-alerts", "process_listing_alert">>}

\* Every handler registered is declared with "async def": calling it makes
\* a coroutine object and runs none of its body
IsCoroutineFunction(h) == h \in {"process_new_listing", "process_listing_alert"}

\* The values published: JSON objects {"id": ..., "price": ...}
Values == [id : {"L1", "L2"}, price : {500}]

\* A payload is a sequence of tokens [t, s, n]
Punct(c) == [t |-> c, s |-> "", n |-> 0]
StrTok(x) == [t |-> "string", s |-> x, n |-> 0]
NumTok(x) == [t |-> "number", s |-> "", n |-> x]
BadBytes == [t |-> "invalid-utf8", s |-> "", n |-> 0]

\* json.dumps(value).encode('utf-8')
Dumps(v) ==
    <<Punct("{"), StrTok("id"), Punct(":"), StrTok(v.id), Punct(","),
      StrTok("price"), Punct(":"), NumTok(v.price), Punct("}")>>

\* msg.value().decode('utf-8') raises UnicodeDecodeError
DecodeRaises(payload) == \E i \in 1..Len(payload) : payload[i] = BadBytes

\* json.loads accepts the payload
IsJson(payload) ==
    /\ Len(payload) = 9
    /\ payload[1] = Punct("{") /\ payload[2] = StrTok("id")
    /\ payload[3] = Punct(":") /\ payload[4].t = "string"
    /\ payload[5] = Punct(",") /\ payload[6] = StrTok("price")
    /\ payload[7] = Punct(":") /\ payload[8].t = "number"
    /\ payload[9] = Punct("}")

\* json.loads(payload)
Loads(payload) == [id |-> payload[4].s, price |-> payload[8].n]

\* What can be on a topic: published values, and what another producer
\* may write: a truncated object, bytes that are not UTF-8
ForeignPayloads ==
    {<<Punct("{"), StrTok("id"), Punct(":")>>,
     <<BadBytes>>}

Published == Len(topicLog["marketplace-listings-new"]) + Len(topicLog["marketplace-alerts"])

\* KafkaClient.publish_event(topic, value)
PublishEvent(t, v) ==
    /\ Published < MaxPublished
    /\ topicLog' = [topicLog EXCEPT ![t] = Append(@, Dumps(v))]
    /\ UNCHANGED <<busHandlers, busRunning, busStopping, busConsumers, threadPc,
                   offset, poolOpen, tasks, observed, counters, consumedLog>>
    /\ UNCHANGED busAux
    /\ UNCHANGED otherBus

\* Another producer writes a payload that is not a JSON object
ForeignProduce(t, payload) ==
    /\ Published < MaxPublished
    /\ topicLog' = [topicLog EXCEPT ![t] = Append(@, payload)]
    /\ UNCHANGED <<busHandlers, busRunning, busStopping, busConsumers, threadPc,
                   offset, poolOpen, tasks, observed, counters, consumedLog>>
    /\ UNCHANGED busAux
    /\ UNCHANGED otherBus

\* handler.__name__: handler_a2 is another function named handler_a
HandlerName(h) == IF h = "handler_a2" THEN "handler_a" ELSE h

\* add_topic_handler(topic, handler): self.handlers[topic] is a dict keyed
\* by handler.__name__ (lines 80-82)
AddTopicHandler(t, h) ==
    /\ ~busStopping
    /\ h \notin busHandlers[t]
    /\ busHandlers' = [busHandlers EXCEPT ![t] =
                          {g \in @ : HandlerName(g) # HandlerName(h)} \cup {h}]
    /\ UNCHANGED <<topicLog, busRunning, busStopping, busConsumers, threadPc,
                   offset, poolOpen, tasks, observed, counters, consumedLog>>
    /\ UNCHANGED busAux
    /\ UNCHANGED otherBus

\* The topics start() creates a consumer and a thread for: none when the
\* manager is already running (line 192), else each topic with handlers
\* that has no entry in self.consumers (lines 199-200)
MutStartEveryTopic(running, handlers, consumers) ==
    {t \in Topics : handlers[t] # {}}
NewTopics(running, handlers, consumers) ==
    IF running THEN {}
    ELSE {t \in Topics : handlers[t] # {} /\ t \notin consumers}

\* start(); unless it returns at line 192 it ends with
\* health_check_callback("kafka-consumer", True, ...) (lines 214-215)
Start ==
    /\ ~busStopping
    /\ busRunning' = TRUE
    /\ LET new == NewTopics(busRunning, busHandlers, busConsumers) IN
       /\ busConsumers' = busConsumers \cup new
       /\ threadPc' = [t \in Topics |-> IF t \in new THEN "check" ELSE threadPc[t]]
       /\ liveThreads' = [t \in Topics |->
                             liveThreads[t] + (IF t \in new THEN 1 ELSE 0)]
       /\ openConsumers' = [t \in Topics |->
                               openConsumers[t] + (IF t \in new THEN 1 ELSE 0)]
    /\ health' = IF busRunning THEN health ELSE TRUE
    /\ UNCHANGED <<committed, brokerErrors>>
    /\ UNCHANGED <<topicLog, busHandlers, busStopping, offset, poolOpen, tasks,
                   observed, counters, consumedLog>>
    /\ UNCHANGED otherBus

\* stop(), up to the joins: running = False
StopBegin ==
    /\ ~busStopping
    /\ busRunning
    /\ busRunning' = FALSE
    /\ busStopping' = TRUE
    /\ UNCHANGED <<topicLog, busHandlers, busConsumers, threadPc, offset,
                   poolOpen, tasks, observed, counters, consumedLog>>
    /\ UNCHANGED busAux
    /\ UNCHANGED otherBus

\* thread.join(timeout=5.0) for every thread (lines 230-231): a loop tests
\* "while self.running" at least once a second (poll(timeout=1.0), no
\* blocking call in the processing of a message), so each join returns
\* because its thread has exited
MutNoJoin(pcs) == TRUE
Joined(pcs) == \A t \in Topics : pcs[t] \in {"none", "exited"}

\* What stop() gives to health_check_callback (lines 241-242)
MutStopKeepsHealth(h) == h
HealthAfterStop(h) == FALSE

\* stop(), after the joins: the threads have exited, the consumers are
\* closed, the callback is told and thread_pool.shutdown(wait=True) has
\* let the queued calls finish
StopFinish ==
    /\ busStopping
    /\ Joined(threadPc)
    /\ \A i \in 1..Len(tasks) : tasks[i].done
    /\ busStopping' = FALSE
    /\ poolOpen' = FALSE
    /\ openConsumers' = [t \in Topics |-> 0]
    /\ health' = HealthAfterStop(health)
    /\ UNCHANGED <<topicLog, busHandlers, busRunning, busConsumers, threadPc,
                   offset, tasks, observed, counters, consumedLog, liveThreads,
                   committed, brokerErrors>>
    /\ UNCHANGED otherBus

\* _consume_loop: the test of "while self.running"; when it fails the
\* thread closes its consumer (line 183), which commits the offsets of the
\* messages polled ('enable.auto.commit': True, line 98), and ends
LoopCheck(t) ==
    /\ threadPc[t] = "check"
    /\ threadPc' = [threadPc EXCEPT ![t] = IF busRunning THEN "poll" ELSE "exited"]
    /\ IF busRunning
       THEN UNCHANGED busAux
       ELSE /\ liveThreads' = [liveThreads EXCEPT ![t] = @ - 1]
            /\ openConsumers' = [openConsumers EXCEPT ![t] = Max(0, @ - 1)]
            /\ committed' = [committed EXCEPT ![t] = offset[t]]
            /\ UNCHANGED <<health, brokerErrors>>
    /\ UNCHANGED <<topicLog, busHandlers, busRunning, busStopping, busConsumers,
                   offset, poolOpen, tasks, observed, counters, consumedLog>>
    /\ UNCHANGED otherBus

\* consumer.poll(timeout=1.0) returns None
LoopPollNone(t) ==
    /\ threadPc[t] = "poll"
    /\ offset[t] = Len(topicLog[t])
    /\ threadPc' = [threadPc EXCEPT ![t] = "check"]
    /\ UNCHANGED <<topicLog, busHandlers, busRunning, busStopping, busConsumers,
                   offset, poolOpen, tasks, observed, counters, consumedLog>>
    /\ UNCHANGED busAux
    /\ UNCHANGED otherBus

Results == {"success", "invalid_json", "error"}

\* Which counter a payload ends in: "error" for the generic except clause
\* (UnicodeDecodeError), "invalid_json" for JSONDecodeError
Outcome(payload) ==
    IF DecodeRaises(payload) THEN "error"
    ELSE IF ~IsJson(payload) THEN "invalid_json"
    ELSE "success"

\* Every exception of the message processing is caught inside the loop,
\* which goes back to its test
MutInvalidEndsLoop(outcome) == IF outcome = "success" THEN "check" ELSE "exited"
AfterMessage(outcome) == "check"

\* The calls submitted for one value: one per handler of the topic
Submissions(t, value) ==
    LET RECURSIVE Each(_)
        Each(hs) == IF hs = {} THEN <<>>
                    ELSE LET h == CHOOSE x \in hs : TRUE
                         IN  <<[handler |-> h, value |-> value, done |-> FALSE,
                                raised |-> FALSE, topic |-> t,
                                pos |-> offset[t] + 1]>>
                             \o Each(hs \ {h})
    IN  Each(busHandlers[t])

\* consumer.poll returns a message, which is processed (lines 139-168)
LoopPollMessage(t) ==
    /\ threadPc[t] = "poll"
    /\ offset[t] < Len(topicLog[t])
    /\ LET payload == topicLog[t][offset[t] + 1]
           outcome == Outcome(payload)
           attempted == IF outcome = "success" THEN Cardinality(busHandlers[t]) ELSE 0
           new == IF outcome = "success" /\ poolOpen
                  THEN Submissions(t, Loads(payload)) ELSE <<>>
           refused == attempted - Len(new)
       IN  /\ tasks' = tasks \o new
           /\ counters' = [counters EXCEPT ![t] =
                  [r \in Results |-> counters[t][r]
                                     + (IF r = outcome THEN 1 ELSE 0)
                                     + (IF r = "error" THEN refused ELSE 0)]]
           /\ threadPc' = [threadPc EXCEPT ![t] = AfterMessage(outcome)]
           /\ consumedLog' = Append(consumedLog,
                  [topic |-> t, outcome |-> outcome,
                   handlers |-> Cardinality(busHandlers[t]),
                   attempted |-> attempted, submitted |-> Len(new),
                   accepting |-> poolOpen,
                   errors |-> (counters'[t]["error"] + counters'[t]["invalid_json"])
                              - (counters[t]["error"] + counters[t]["invalid_json"]),
                   alive |-> threadPc'[t] # "exited"])
    /\ offset' = [offset EXCEPT ![t] = @ + 1]
    /\ UNCHANGED <<topicLog, busHandlers, busRunning, busStopping, busConsumers,
                   poolOpen, observed>>
    /\ UNCHANGED busAux
    /\ UNCHANGED otherBus

\* A pool worker runs handler(value).  For a coroutine function the call
\* returns a coroutine object that nothing awaits.  A plain function runs
\* its body, which may raise: the exception is stored in the Future that
\* submit returned at line 153 and that nothing keeps.
WorkerRun(i, raises) ==
    /\ i \in 1..Len(tasks)
    /\ ~tasks[i].done
    /\ raises => ~IsCoroutineFunction(tasks[i].handler)
    /\ tasks' = [tasks EXCEPT ![i].done = TRUE, ![i].raised = raises]
    /\ observed' = IF IsCoroutineFunction(tasks[i].handler) THEN observed
                   ELSE observed \cup {<<tasks[i].handler, tasks[i].value>>}
    /\ UNCHANGED <<topicLog, busHandlers, busRunning, busStopping, busConsumers,
                   threadPc, offset, poolOpen, counters, consumedLog>>
    /\ UNCHANGED busAux
    /\ UNCHANGED otherBus

MaxBrokerErrors == 1

\* consumer.poll returns a message whose error() is not _PARTITION_EOF
\* (lines 125-137), or raises (lines 170-177): the callback is given
\* False and the loop goes on
LoopPollError(t) ==
    /\ threadPc[t] = "poll"
    /\ brokerErrors < MaxBrokerErrors
    /\ brokerErrors' = brokerErrors + 1
    /\ health' = FALSE
    /\ threadPc' = [threadPc EXCEPT ![t] = "check"]
    /\ UNCHANGED <<topicLog, busHandlers, busRunning, busStopping, busConsumers,
                   offset, poolOpen, tasks, observed, counters, consumedLog,
                   liveThreads, openConsumers, committed>>
    /\ UNCHANGED otherBus

\* The consumer's background commit ('enable.auto.commit': True, line 98,
\* the default of __init__ that main.py line 129 keeps): the offsets of
\* the messages poll has returned are committed for the group
AutoCommit(t) ==
    /\ openConsumers[t] > 0
    /\ committed[t] < offset[t]
    /\ committed' = [committed EXCEPT ![t] = offset[t]]
    /\ UNCHANGED <<topicLog, busHandlers, busRunning, busStopping, busConsumers,
                   threadPc, offset, poolOpen, tasks, observed, counters,
                   consumedLog, liveThreads, openConsumers, health, brokerErrors>>
    /\ UNCHANGED otherBus

BusPark ==
    /\ topicLog = [t \in Topics |-> <<>>]
    /\ busHandlers = [t \in Topics |-> {}]
    /\ busRunning = FALSE
    /\ busStopping = FALSE
    /\ busConsumers = {}
    /\ threadPc = [t \in Topics |-> "none"]
    /\ offset = [t \in Topics |-> 0]
    /\ poolOpen = TRUE
    /\ tasks = <<>>
    /\ observed = {}
    /\ counters = [t \in Topics |-> [r \in Results |-> 0]]
    /\ consumedLog = <<>>
    /\ liveThreads = [t \in Topics |-> 0]
    /\ openConsumers = [t \in Topics |-> 0]
    /\ committed = [t \in Topics |-> 0]
    /\ health = FALSE
    /\ brokerErrors = 0

BusNext ==
    \/ \E t \in Topics, v \in Values : PublishEvent(t, v)
    \/ \E t \in Topics, payload \in ForeignPayloads : ForeignProduce(t, payload)
    \/ \E r \in Registrations : AddTopicHandler(r[1], r[2])
    \/ Start
    \/ StopBegin
    \/ StopFinish
    \/ \E t \in Topics : LoopCheck(t)
    \/ \E t \in Topics : LoopPollNone(t)
    \/ \E t \in Topics : LoopPollMessage(t)
    \/ \E i \in 1..MaxPublished, raises \in BOOLEAN : WorkerRun(i, raises)

\* Handlers of the type add_topic_handler declares,
\* Callable[[Dict[str, Any]], None]: plain functions for one topic, two of
\* them with the same __name__
PlainRegistrations ==
    {<<"marketplace-listings-new", "handler_a">>,
     <<"marketplace-listings-new", "handler_a2">>}

\* The manager with the processor's handlers, well-formed events and the
\* consumers' background commits
BusOpsNext ==
    \/ \E t \in Topics, v \in Values : PublishEvent(t, v)
    \/ \E r \in Registrations : AddTopicHandler(r[1], r[2])
    \/ Start
    \/ StopBegin
    \/ StopFinish
    \/ \E t \in Topics : LoopCheck(t)
    \/ \E t \in Topics : LoopPollNone(t)
    \/ \E t \in Topics : LoopPollMessage(t)
    \/ \E t \in Topics : AutoCommit(t)
    \/ \E i \in 1..MaxPublished, raises \in BOOLEAN : WorkerRun(i, raises)

\* The manager with the processor's handlers, events of one listing and
\* broker errors
BusHealthNext ==
    \/ \E t \in Topics : PublishEvent(t, [id |-> "L1", price |-> 500])
    \/ \E r \in Registrations : AddTopicHandler(r[1], r[2])
    \/ Start
    \/ StopBegin
    \/ StopFinish
    \/ \E t \in Topics : LoopCheck(t)
    \/ \E t \in Topics : LoopPollNone(t)
    \/ \E t \in Topics : LoopPollMessage(t)
    \/ \E t \in Topics : LoopPollError(t)
    \/ \E i \in 1..MaxPublished, raises \in BOOLEAN : WorkerRun(i, raises)

\* The manager with plain functions as handlers, and well-formed events
\* on their topic
BusPlainNext ==
    \/ \E r \in PlainRegistrations, v \in Values : PublishEvent(r[1], v)
    \/ \E r \in PlainRegistrations : AddTopicHandler(r[1], r[2])
    \/ Start
    \/ StopBegin
    \/ StopFinish
    \/ \E t \in Topics : LoopCheck(t)
    \/ \E t \in Topics : LoopPollNone(t)
    \/ \E t \in Topics : LoopPollMessage(t)
    \/ \E i \in 1..(2 * MaxPublished), raises \in BOOLEAN : WorkerRun(i, raises)

(***************************************************************************)
(* C7.  Bus round-trip: if a handler is registered for topic T and the bus *)
(* has been started, every value V published on T is eventually executed   *)
(* by that handler with an argument deep-equal to V, at least once: the     *)
(* handler body actually runs, it is not merely submitted.  (The bus being  *)
(* stopped ends the obligation.)                                            *)
(***************************************************************************)
PublishedValueReachesHandler ==
    \A t \in Topics : \A v \in Values :
        (/\ busRunning
         /\ busHandlers[t] # {}
         /\ threadPc[t] \in {"check", "poll"}
         /\ \E i \in 1..Len(topicLog[t]) : topicLog[t][i] = Dumps(v))
        ~> (\/ \A h \in busHandlers[t] : <<h, v>> \in observed
            \/ ~busRunning)

\* The messages a loop polled after an earlier one on the same topic that
\* was not valid JSON
AfterInvalid(i) ==
    \E j \in 1..(i - 1) :
        /\ consumedLog[j].topic = consumedLog[i].topic
        /\ consumedLog[j].outcome # "success"

(***************************************************************************)
(* C8.  In the consumption loop a received payload that is not valid JSON  *)
(* increments the error counter by exactly 1, invokes no handler and does  *)
(* not end the loop: a later valid message on the same topic is still      *)
(* dispatched to that topic's handlers (one submission per handler, which  *)
(* the worker pool takes unless stop() has shut it down).                  *)
(***************************************************************************)
InvalidPayloadCountedAndSkipped ==
    \A i \in 1..Len(consumedLog) :
        LET e == consumedLog[i] IN
        /\ e.outcome # "success" =>
              /\ e.errors = 1
              /\ e.attempted = 0 /\ e.submitted = 0
              /\ e.alive
        /\ (e.outcome = "success" /\ AfterInvalid(i)) =>
              /\ e.attempted = e.handlers /\ e.handlers > 0
              /\ e.accepting => e.submitted = e.handlers

WitnessValidAfterInvalid ==
    \E i \in 1..Len(consumedLog) :
        /\ consumedLog[i].outcome = "success"
        /\ consumedLog[i].submitted = 1
        /\ \E j \in 1..(i - 1) :
              /\ consumedLog[j].topic = consumedLog[i].topic
              /\ consumedLog[j].outcome = "invalid_json"
              /\ consumedLog[j].errors = 1
        /\ counters[consumedLog[i].topic]["invalid_json"] = 1
        /\ counters[consumedLog[i].topic]["success"] = 1

----------------------------------------------------------------------------
(* WebSocketManager (services/api/src/websocket/manager.py): coroutines on *)
(* one event loop.  An action runs a coroutine from one suspension point   *)
(* (an await that waits for the network, the bus or another task) to the   *)
(* next.                                                                   *)

MaxEvents == 1
MaxTasks == 2

Conns == {"w1", "w2", "w3"}
Categories == {"electronics", "furniture", "all"}
EventCategories == {"electronics", "furniture", "all"}
EventIds == 1..MaxEvents
TaskIds == 1..MaxTasks

\* The category each client asks for in its URL
ConnCategories(w) ==
    CASE w = "w1" -> {"electronics"}
      [] w = "w2" -> {"all"}
      [] OTHER -> {"electronics", "furniture"}

LiveStates == {"created", "starting", "consuming", "sweeping"}

\* self.kafka_consumer_task is a task that is not done
TaskNotDone == wsTask # 0 /\ taskPc[wsTask] \in LiveStates

\* Some consumption task exists that has not finished
AnyTaskLive == \E k \in TaskIds : taskPc[k] \in LiveStates

\* _count_connections() on a connection table
CountConnections(table) ==
    LET RECURSIVE Sum(_)
        Sum(cats) == IF cats = {} THEN 0
                     ELSE LET c == CHOOSE x \in cats : TRUE
                          IN  (IF table[c].present THEN Cardinality(table[c].members) ELSE 0)
                              + Sum(cats \ {c})
    IN  Sum(Categories)

NoSweep == [ev |-> 0, x |-> "all", cat |-> "all", used |-> 0, visited |-> {},
            failed |-> {}, stale |-> FALSE, stayed |-> {}]

NoEvent == [state |-> "pending", cat |-> "all", stable |-> {}]

\* A client opens a socket: handle_connection calls connect, which awaits
\* websocket.accept()
HandleConnection(w, cat) ==
    /\ hpc[w] = "idle"
    /\ cat \in ConnCategories(w)
    /\ hpc' = [hpc EXCEPT ![w] = "accepting"]
    /\ hcat' = [hcat EXCEPT ![w] = cat]
    /\ UNCHANGED <<active, gone, wsRunning, wsTask, wsConsumer, taskPc, nextTask,
                   consumerStopped, cancelReq, busQueue, nextEvent, sweep,
                   received, evt, hjoin, lastReg>>
    /\ UNCHANGED wsAux
    /\ UNCHANGED otherWs

\* connect, after accept (lines 41-53), then the welcome message is sent
ConnectRegister(w) ==
    /\ hpc[w] = "accepting"
    /\ LET cat == hcat[w]
           starts == ~wsRunning /\ ~TaskNotDone
       IN  /\ starts => nextTask <= MaxTasks
           /\ active' = [active EXCEPT ![cat] =
                            [present |-> TRUE,
                             members |-> (IF @.present THEN @.members ELSE {}) \cup {w}]]
           /\ IF starts
              THEN /\ wsRunning' = TRUE
                   /\ wsTask' = nextTask
                   /\ taskPc' = [taskPc EXCEPT ![nextTask] = "created"]
                   /\ nextTask' = nextTask + 1
              ELSE UNCHANGED <<wsRunning, wsTask, taskPc, nextTask>>
           /\ lastReg' = [conn |-> w, liveBefore |-> AnyTaskLive,
                          liveAfter |-> AnyTaskLive \/ starts]
    /\ hpc' = [hpc EXCEPT ![w] = "welcome"]
    /\ UNCHANGED <<hcat, gone, wsConsumer, consumerStopped, cancelReq, busQueue,
                   nextEvent, sweep, received, evt, hjoin>>
    /\ UNCHANGED wsAux
    /\ UNCHANGED otherWs

\* The welcome message has been sent; the handler awaits receive_text()
HandlerWelcomed(w) ==
    /\ hpc[w] = "welcome"
    /\ hpc' = [hpc EXCEPT ![w] = "receiving"]
    /\ UNCHANGED <<active, hcat, gone, wsRunning, wsTask, wsConsumer, taskPc,
                   nextTask, consumerStopped, cancelReq, busQueue, nextEvent,
                   sweep, received, evt, hjoin, lastReg>>
    /\ UNCHANGED wsAux
    /\ UNCHANGED otherWs

\* The client closes its socket
ClientClose(w) ==
    /\ hpc[w] = "receiving"
    /\ w \notin gone
    /\ gone' = gone \cup {w}
    /\ evt' = [e \in EventIds |->
                 IF evt[e].state = "handling"
                 THEN [evt[e] EXCEPT !.stable = @ \ {w}] ELSE evt[e]]
    /\ UNCHANGED <<active, hpc, hcat, wsRunning, wsTask, wsConsumer, taskPc,
                   nextTask, consumerStopped, cancelReq, busQueue, nextEvent,
                   sweep, received, hjoin, lastReg>>
    /\ UNCHANGED wsAux
    /\ UNCHANGED otherWs

\* self.active_connections[category].discard(websocket) (line 63)
MutDiscardNothing(members, w) == members
Discarded(members, w) == members \ {w}

\* disconnect(websocket, cat) (lines 62-76) and, when the count reaches zero,
\* _stop_kafka_consumer up to its first await (lines 192-200).  done,
\* stopWait and joinWait are the caller's positions after the call, in
\* kafka_consumer.stop() and in the wait for the task.
Disconnect(w, cat, done, stopWait, joinWait) ==
    LET left == Discarded(active[cat].members, w)
        table == IF ~active[cat].present THEN active
                 ELSE [active EXCEPT ![cat] =
                         IF left = {} THEN [present |-> FALSE, members |-> {}]
                         ELSE [present |-> TRUE, members |-> left]]
        deleted == active[cat].present /\ left = {}
        stops == CountConnections(table) = 0 /\ TaskNotDone
    IN  /\ active' = table
        /\ sweep' = [k \in TaskIds |->
                       IF deleted /\ taskPc[k] = "sweeping" /\ sweep[k].cat = cat
                       THEN [sweep[k] EXCEPT !.stale = TRUE] ELSE sweep[k]]
        /\ IF ~stops
           THEN /\ hpc' = [hpc EXCEPT ![w] = done]
                /\ UNCHANGED <<wsRunning, consumerStopped, cancelReq, hjoin>>
           ELSE /\ wsRunning' = FALSE
                /\ IF wsConsumer # 0
                   THEN /\ consumerStopped' = [consumerStopped EXCEPT ![wsConsumer] = TRUE]
                        /\ hpc' = [hpc EXCEPT ![w] = stopWait]
                        /\ UNCHANGED <<cancelReq, hjoin>>
                   ELSE /\ cancelReq' = [cancelReq EXCEPT ![wsTask] = TRUE]
                        /\ hjoin' = [hjoin EXCEPT ![w] = wsTask]
                        /\ hpc' = [hpc EXCEPT ![w] = joinWait]
                        /\ UNCHANGED consumerStopped

\* receive_text() raises WebSocketDisconnect; the finally clause runs
\* disconnect with the category handle_connection was called with
HandlerDisconnect(w) ==
    /\ hpc[w] = "receiving"
    /\ w \in gone
    /\ Disconnect(w, hcat[w], "finished", "stop_wait", "join_wait")
    /\ UNCHANGED <<hcat, gone, wsTask, wsConsumer, taskPc, nextTask, busQueue,
                   nextEvent, received, evt, lastReg>>
    /\ UNCHANGED wsAux
    /\ UNCHANGED otherWs

\* The client sends {"type": "filter", "category": new} with new different
\* from the category argument of handle_connection (lines 173-183):
\* disconnect(websocket, category), then connect(websocket, new), whose
\* websocket.accept() (line 39) raises RuntimeError on a socket that is
\* already accepted, before the socket is added to any set.  The exception
\* is logged at line 147 and the handler returns to receive_text(); the
\* info message of lines 180-183 is not sent.
FilterCommand(w, new) ==
    /\ hpc[w] = "receiving"
    /\ w \notin gone
    /\ new # hcat[w]
    /\ Disconnect(w, hcat[w], "receiving", "filter_stop_wait", "filter_join_wait")
    /\ hwant' = [hwant EXCEPT ![w] = new]
    /\ UNCHANGED <<broadcasts, deliveries, closer>>
    /\ evt' = [e \in EventIds |->
                 IF evt[e].state = "handling"
                 THEN [evt[e] EXCEPT !.stable = @ \ {w}] ELSE evt[e]]
    /\ UNCHANGED <<hcat, gone, wsTask, wsConsumer, taskPc, nextTask, busQueue,
                   nextEvent, received, lastReg>>
    /\ UNCHANGED otherWs

\* Where a caller of _stop_kafka_consumer goes on when the call ends, by
\* return or by exception: the finally clause of handle_connection ends
\* the handler; the filter command ends in the except clause of line 147
\* (after connect has raised) and the handler receives again.
AfterStop(pc) ==
    IF pc \in {"stop_wait", "join_wait"} THEN "finished" ELSE "receiving"

JoinWaitOf(pc) == IF pc = "stop_wait" THEN "join_wait" ELSE "filter_join_wait"

\* kafka_consumer.stop() has returned: self.kafka_consumer_task.cancel(),
\* then await self.kafka_consumer_task (lines 200-204).  With the attribute
\* None the call raises AttributeError, which leaves the caller.
StopResume(w) ==
    /\ hpc[w] \in {"stop_wait", "filter_stop_wait"}
    /\ IF wsTask = 0
       THEN /\ hpc' = [hpc EXCEPT ![w] = AfterStop(hpc[w])]
            /\ UNCHANGED <<cancelReq, hjoin, wsTask, wsConsumer>>
       ELSE IF taskPc[wsTask] \in LiveStates
       THEN /\ cancelReq' = [cancelReq EXCEPT ![wsTask] = TRUE]
            /\ hjoin' = [hjoin EXCEPT ![w] = wsTask]
            /\ hpc' = [hpc EXCEPT ![w] = JoinWaitOf(hpc[w])]
            /\ UNCHANGED <<wsTask, wsConsumer>>
       ELSE /\ wsTask' = 0
            /\ wsConsumer' = 0
            /\ hpc' = [hpc EXCEPT ![w] = AfterStop(hpc[w])]
            /\ UNCHANGED <<cancelReq, hjoin>>
    /\ UNCHANGED <<active, hcat, gone, wsRunning, taskPc, nextTask,
                   consumerStopped, busQueue, nextEvent, sweep, received, evt,
                   lastReg>>
    /\ UNCHANGED wsAux
    /\ UNCHANGED otherWs

\* The awaited task has ended: kafka_consumer_task = None,
\* kafka_consumer = None (lines 206-207)
JoinResume(w) ==
    /\ hpc[w] \in {"join_wait", "filter_join_wait"}
    /\ taskPc[hjoin[w]] \in {"done", "cancelled"}
    /\ wsTask' = 0
    /\ wsConsumer' = 0
    /\ hpc' = [hpc EXCEPT ![w] = AfterStop(hpc[w])]
    /\ hjoin' = [hjoin EXCEPT ![w] = 0]
    /\ UNCHANGED <<active, hcat, gone, wsRunning, taskPc, nextTask,
                   consumerStopped, cancelReq, busQueue, nextEvent, sweep,
                   received, evt, lastReg>>
    /\ UNCHANGED wsAux
    /\ UNCHANGED otherWs

\* A listing event is published on the bus
WsPublish(cat) ==
    /\ nextEvent <= MaxEvents
    /\ busQueue' = Append(busQueue, [id |-> nextEvent, category |-> cat])
    /\ nextEvent' = nextEvent + 1
    /\ UNCHANGED <<active, hpc, hcat, gone, wsRunning, wsTask, wsConsumer, taskPc,
                   nextTask, consumerStopped, cancelReq, sweep, received, evt,
                   hjoin, lastReg>>
    /\ UNCHANGED wsAux
    /\ UNCHANGED otherWs

\* task.cancel() takes effect at the task's next resumption
TaskCancelled(k) ==
    /\ taskPc[k] \in LiveStates
    /\ cancelReq[k]
    /\ taskPc' = [taskPc EXCEPT ![k] = "cancelled"]
    /\ evt' = [e \in EventIds |->
                 IF taskPc[k] = "sweeping" /\ sweep[k].ev = e
                 THEN [evt[e] EXCEPT !.state = "abandoned"] ELSE evt[e]]
    /\ UNCHANGED <<active, hpc, hcat, gone, wsRunning, wsTask, wsConsumer,
                   nextTask, consumerStopped, cancelReq, busQueue, nextEvent,
                   sweep, received, hjoin, lastReg>>
    /\ UNCHANGED wsAux
    /\ UNCHANGED otherWs

\* _kafka_consumer_loop starts: the consumer is made and start() awaited
TaskBegin(k) ==
    /\ taskPc[k] = "created"
    /\ ~cancelReq[k]
    /\ wsConsumer' = k
    /\ taskPc' = [taskPc EXCEPT ![k] = "starting"]
    /\ UNCHANGED <<active, hpc, hcat, gone, wsRunning, wsTask, nextTask,
                   consumerStopped, cancelReq, busQueue, nextEvent, sweep,
                   received, evt, hjoin, lastReg>>
    /\ UNCHANGED wsAux
    /\ UNCHANGED otherWs

\* start() has returned; the loop waits in consume()
TaskStarted(k) ==
    /\ taskPc[k] = "starting"
    /\ ~cancelReq[k]
    /\ taskPc' = [taskPc EXCEPT ![k] = "consuming"]
    /\ UNCHANGED <<active, hpc, hcat, gone, wsRunning, wsTask, wsConsumer,
                   nextTask, consumerStopped, cancelReq, busQueue, nextEvent,
                   sweep, received, evt, hjoin, lastReg>>
    /\ UNCHANGED wsAux
    /\ UNCHANGED otherWs

\* consume() ends because the consumer was stopped: the task returns
TaskEnd(k) ==
    /\ taskPc[k] = "consuming"
    /\ ~cancelReq[k]
    /\ consumerStopped[k]
    /\ taskPc' = [taskPc EXCEPT ![k] = "done"]
    /\ UNCHANGED <<active, hpc, hcat, gone, wsRunning, wsTask, wsConsumer,
                   nextTask, consumerStopped, cancelReq, busQueue, nextEvent,
                   sweep, received, evt, hjoin, lastReg>>
    /\ UNCHANGED wsAux
    /\ UNCHANGED otherWs

\* One connection table after broadcast's removal of the sockets whose
\* send failed (lines 100-101)
AfterRemoval(table, cat, failed) ==
    [table EXCEPT ![cat].members = @ \ failed]

\* From a call of next() on the iterator of broadcast's for loop up to the
\* next suspension: either the next send_json, or the end of the handling
\* of the event.  sw is the sweep, table the connection table.
\*   - the set changed size (or was deleted): RuntimeError, which the loop
\*     catches at line 264: the handling of the event ends;
\*   - a socket is left: send to it;
\*   - none is left: the failed sockets are removed; after the sweep of the
\*     event's category comes the sweep of "all".
Sent(k, sw, table, ev0, w) ==
    /\ active' = table
    /\ sweep' = [sweep EXCEPT ![k] =
                    [sw EXCEPT !.visited = @ \cup {w},
                               !.failed = IF w \in gone THEN @ \cup {w} ELSE @,
                               !.stayed = @ \cap table[sw.cat].members]]
    /\ received' = IF w \in gone THEN received
                   ELSE [received EXCEPT ![w] = @ \cup {sw.ev}]
    /\ deliveries' = IF w \in gone THEN deliveries
                     ELSE [deliveries EXCEPT ![w][sw.ev] = @ + 1]
    /\ taskPc' = [taskPc EXCEPT ![k] = "sweeping"]
    /\ evt' = [ev0 EXCEPT ![sw.ev].state = "handling"]

Ended(k, sw, table, ev0) ==
    /\ active' = table
    /\ sweep' = [sweep EXCEPT ![k] = NoSweep]
    /\ received' = received
    /\ deliveries' = deliveries
    /\ taskPc' = [taskPc EXCEPT ![k] = "consuming"]
    /\ evt' = [ev0 EXCEPT ![sw.ev].state = "handled"]

StartSweep(sw, table, cat) ==
    [sw EXCEPT !.cat = cat, !.used = Cardinality(table[cat].members),
               !.visited = {}, !.failed = {}, !.stale = FALSE,
               !.stayed = table[cat].members]

\* What one broadcast call did, when it ends (by return or by exception):
\* the sockets that were in the category's set from its start to its end,
\* those it sent to, those whose send failed, and the set it leaves
Report(sw, table) ==
    [ev |-> sw.ev, cat |-> sw.cat,
     stayed |-> sw.stayed \cap table[sw.cat].members,
     visited |-> sw.visited, failed |-> sw.failed,
     after |-> table[sw.cat].members]

Advance(k, sw, table, ev0) ==
    IF sw.stale \/ Cardinality(table[sw.cat].members) # sw.used
    THEN /\ Ended(k, sw, table, ev0)
         /\ broadcasts' = broadcasts \cup {Report(sw, table)}
    ELSE IF table[sw.cat].members \ sw.visited # {}
    THEN /\ \E w \in table[sw.cat].members \ sw.visited : Sent(k, sw, table, ev0, w)
         /\ broadcasts' = broadcasts
    ELSE LET cleaned == AfterRemoval(table, sw.cat, sw.failed) IN
         IF sw.cat # "all" /\ cleaned["all"].present
         THEN LET all == StartSweep(sw, cleaned, "all") IN
              IF cleaned["all"].members = {}
              THEN /\ Ended(k, all, cleaned, ev0)
                   /\ broadcasts' = broadcasts \cup {Report(sw, cleaned),
                                                      Report(all, cleaned)}
              ELSE /\ \E w \in cleaned["all"].members : Sent(k, all, cleaned, ev0, w)
                   /\ broadcasts' = broadcasts \cup {Report(sw, cleaned)}
         ELSE /\ Ended(k, sw, cleaned, ev0)
              /\ broadcasts' = broadcasts \cup {Report(sw, cleaned)}

\* consume() yields a message (lines 229-260)
TaskNext(k) ==
    /\ taskPc[k] = "consuming"
    /\ ~cancelReq[k]
    /\ ~consumerStopped[k]
    /\ busQueue # <<>>
    /\ busQueue' = Tail(busQueue)
    /\ LET m == Head(busQueue)
           first == IF active[m.category].present THEN m.category ELSE "all"
           sw == StartSweep([NoSweep EXCEPT !.ev = m.id, !.x = m.category],
                            active, first)
           registered == (active[m.category].members \cup active["all"].members) \ gone
       IN  IF ~wsRunning
           THEN /\ taskPc' = [taskPc EXCEPT ![k] = "done"]
                /\ evt' = [evt EXCEPT ![m.id] =
                              [state |-> "dropped", cat |-> m.category, stable |-> {}]]
                /\ UNCHANGED <<active, sweep, received, broadcasts, deliveries>>
           ELSE IF ~active[first].present
           THEN /\ evt' = [evt EXCEPT ![m.id] =
                              [state |-> "handled", cat |-> m.category, stable |-> {}]]
                /\ UNCHANGED <<active, sweep, received, taskPc, broadcasts,
                               deliveries>>
           ELSE Advance(k, sw, active,
                        [evt EXCEPT ![m.id] = [state |-> "handling",
                                               cat |-> m.category,
                                               stable |-> registered]])
    /\ UNCHANGED <<hpc, hcat, gone, wsRunning, wsTask, wsConsumer, nextTask,
                   consumerStopped, cancelReq, nextEvent, hjoin, lastReg, hwant,
                   closer>>
    /\ UNCHANGED otherWs

\* The send_json awaited by broadcast has completed
SweepStep(k) ==
    /\ taskPc[k] = "sweeping"
    /\ ~cancelReq[k]
    /\ Advance(k, sweep[k], active, evt)
    /\ UNCHANGED <<hpc, hcat, gone, wsRunning, wsTask, wsConsumer, nextTask,
                   consumerStopped, cancelReq, busQueue, nextEvent, hjoin, lastReg,
                   hwant, closer>>
    /\ UNCHANGED otherWs

NoClose == [pc |-> "idle", join |-> 0, todo |-> {}, closed |-> {},
            left |-> {}, taskLive |-> FALSE]

\* Every socket of a connection table
AllSockets(table) == UNION {table[c].members : c \in Categories}

\* close_all from the end of _stop_kafka_consumer (lines 284-299): the
\* sockets of the registry are collected; close(code=1000) is awaited for
\* the first of them, or, with none, the registry is cleared and the call
\* ends.  A broadcast in progress ends with the registry.
CloseSockets ==
    LET all == AllSockets(active) IN
    IF all = {}
    THEN /\ closer' = [closer EXCEPT !.pc = "done", !.join = 0, !.left = {},
                                      !.taskLive = AnyTaskLive]
         /\ active' = [c \in Categories |-> [present |-> FALSE, members |-> {}]]
         /\ sweep' = [k \in TaskIds |->
                        IF taskPc[k] = "sweeping" /\ active[sweep[k].cat].present
                        THEN [sweep[k] EXCEPT !.stale = TRUE] ELSE sweep[k]]
         /\ UNCHANGED <<gone, evt>>
    ELSE \E w \in all :
         /\ closer' = [closer EXCEPT !.pc = "closing", !.join = 0,
                                      !.todo = all \ {w}, !.closed = @ \cup {w}]
         /\ gone' = gone \cup {w}
         /\ evt' = [e \in EventIds |->
                      IF evt[e].state = "handling"
                      THEN [evt[e] EXCEPT !.stable = @ \ {w}] ELSE evt[e]]
         /\ UNCHANGED <<active, sweep>>

\* close_all is called: _stop_kafka_consumer up to its first await
CloseAllBegin ==
    /\ closer.pc = "idle"
    /\ IF ~TaskNotDone
       THEN /\ CloseSockets
            /\ UNCHANGED <<wsRunning, consumerStopped, cancelReq>>
       ELSE /\ wsRunning' = FALSE
            /\ IF wsConsumer # 0
               THEN /\ consumerStopped' = [consumerStopped EXCEPT ![wsConsumer] = TRUE]
                    /\ closer' = [closer EXCEPT !.pc = "stop_wait"]
                    /\ UNCHANGED cancelReq
               ELSE /\ cancelReq' = [cancelReq EXCEPT ![wsTask] = TRUE]
                    /\ closer' = [closer EXCEPT !.pc = "join_wait", !.join = wsTask]
                    /\ UNCHANGED consumerStopped
            /\ UNCHANGED <<active, sweep, gone, evt>>
    /\ UNCHANGED <<hpc, hcat, hjoin, wsTask, wsConsumer, taskPc, nextTask, busQueue,
                   nextEvent, received, lastReg, hwant, broadcasts, deliveries>>
    /\ UNCHANGED otherWs

\* kafka_consumer.stop() has returned to close_all's _stop_kafka_consumer
\* (lines 200-207).  With kafka_consumer_task None the call raises
\* AttributeError and close_all ends without closing anything.
CloseAllStopResume ==
    /\ closer.pc = "stop_wait"
    /\ IF wsTask = 0
       THEN /\ closer' = [closer EXCEPT !.pc = "failed"]
            /\ UNCHANGED <<cancelReq, wsTask, wsConsumer, active, sweep, gone, evt>>
       ELSE IF taskPc[wsTask] \in LiveStates
       THEN /\ cancelReq' = [cancelReq EXCEPT ![wsTask] = TRUE]
            /\ closer' = [closer EXCEPT !.pc = "join_wait", !.join = wsTask]
            /\ UNCHANGED <<wsTask, wsConsumer, active, sweep, gone, evt>>
       ELSE /\ wsTask' = 0
            /\ wsConsumer' = 0
            /\ CloseSockets
            /\ UNCHANGED cancelReq
    /\ UNCHANGED <<hpc, hcat, hjoin, wsRunning, taskPc, nextTask, consumerStopped,
                   busQueue, nextEvent, received, lastReg, hwant, broadcasts,
                   deliveries>>
    /\ UNCHANGED otherWs

\* The task close_all awaits has ended
CloseAllJoinResume ==
    /\ closer.pc = "join_wait"
    /\ taskPc[closer.join] \in {"done", "cancelled"}
    /\ wsTask' = 0
    /\ wsConsumer' = 0
    /\ CloseSockets
    /\ UNCHANGED <<hpc, hcat, hjoin, wsRunning, taskPc, nextTask, consumerStopped,
                   cancelReq, busQueue, nextEvent, received, lastReg, hwant,
                   broadcasts, deliveries>>
    /\ UNCHANGED otherWs

\* An awaited close(code=1000) has returned: the next socket collected is
\* closed, or, after the last, active_connections.clear() (line 296) and
\* the call ends.  left: the sockets registered at that moment that
\* close_all has not closed and whose client has not closed them.
CloseAllNext ==
    /\ closer.pc = "closing"
    /\ IF closer.todo = {}
       THEN /\ closer' = [closer EXCEPT !.pc = "done",
                              !.left = AllSockets(active) \ (closer.closed \cup gone),
                              !.taskLive = AnyTaskLive]
            /\ active' = [c \in Categories |-> [present |-> FALSE, members |-> {}]]
            /\ sweep' = [k \in TaskIds |->
                           IF taskPc[k] = "sweeping" /\ active[sweep[k].cat].present
                           THEN [sweep[k] EXCEPT !.stale = TRUE] ELSE sweep[k]]
            /\ UNCHANGED <<gone, evt>>
       ELSE \E w \in closer.todo :
            /\ closer' = [closer EXCEPT !.todo = @ \ {w}, !.closed = @ \cup {w}]
            /\ gone' = gone \cup {w}
            /\ evt' = [e \in EventIds |->
                         IF evt[e].state = "handling"
                         THEN [evt[e] EXCEPT !.stable = @ \ {w}] ELSE evt[e]]
            /\ UNCHANGED <<active, sweep>>
    /\ UNCHANGED <<hpc, hcat, hjoin, wsRunning, wsTask, wsConsumer, taskPc, nextTask,
                   consumerStopped, cancelReq, busQueue, nextEvent, received,
                   lastReg, hwant, broadcasts, deliveries>>
    /\ UNCHANGED otherWs

WsPark ==
    /\ active = [c \in Categories |-> [present |-> FALSE, members |-> {}]]
    /\ hpc = [w \in Conns |-> "idle"]
    /\ hcat = [w \in Conns |-> "all"]
    /\ hjoin = [w \in Conns |-> 0]
    /\ gone = {}
    /\ wsRunning = FALSE
    /\ wsTask = 0
    /\ wsConsumer = 0
    /\ taskPc = [k \in TaskIds |-> "unborn"]
    /\ nextTask = 1
    /\ consumerStopped = [k \in TaskIds |-> FALSE]
    /\ cancelReq = [k \in TaskIds |-> FALSE]
    /\ busQueue = <<>>
    /\ nextEvent = 1
    /\ sweep = [k \in TaskIds |-> NoSweep]
    /\ received = [w \in Conns |-> {}]
    /\ evt = [e \in EventIds |-> NoEvent]
    /\ lastReg = [conn |-> "w1", liveBefore |-> TRUE, liveAfter |-> TRUE]
    /\ hwant = [w \in Conns |-> "none"]
    /\ broadcasts = {}
    /\ deliveries = [w \in Conns |-> [e \in EventIds |-> 0]]
    /\ closer = NoClose

WsNext ==
    \/ \E w \in Conns, cat \in Categories : HandleConnection(w, cat)
    \/ \E w \in Conns : ConnectRegister(w)
    \/ \E w \in Conns : HandlerWelcomed(w)
    \/ \E w \in Conns : ClientClose(w)
    \/ \E w \in Conns : HandlerDisconnect(w)
    \/ \E w \in Conns : StopResume(w)
    \/ \E w \in Conns : JoinResume(w)
    \/ \E cat \in EventCategories : WsPublish(cat)
    \/ \E k \in TaskIds : TaskCancelled(k)
    \/ \E k \in TaskIds : TaskBegin(k)
    \/ \E k \in TaskIds : TaskStarted(k)
    \/ \E k \in TaskIds : TaskEnd(k)
    \/ \E k \in TaskIds : TaskNext(k)
    \/ \E k \in TaskIds : SweepStep(k)

\* The clients that send commands while they are connected
CmdConns == {"w1", "w2"}

\* Connections, client commands, the bus and the broadcasts
WsCmdNext ==
    \/ \E w \in CmdConns, cat \in Categories : HandleConnection(w, cat)
    \/ \E w \in CmdConns : ConnectRegister(w)
    \/ \E w \in CmdConns : HandlerWelcomed(w)
    \/ \E w \in CmdConns : ClientClose(w)
    \/ \E w \in CmdConns : HandlerDisconnect(w)
    \/ \E w \in CmdConns, new \in Categories : FilterCommand(w, new)
    \/ \E w \in CmdConns : StopResume(w)
    \/ \E w \in CmdConns : JoinResume(w)
    \/ CloseAllBegin
    \/ CloseAllStopResume
    \/ CloseAllJoinResume
    \/ CloseAllNext
    \/ \E cat \in EventCategories : WsPublish(cat)
    \/ \E k \in TaskIds : TaskCancelled(k)
    \/ \E k \in TaskIds : TaskBegin(k)
    \/ \E k \in TaskIds : TaskStarted(k)
    \/ \E k \in TaskIds : TaskEnd(k)
    \/ \E k \in TaskIds : TaskNext(k)
    \/ \E k \in TaskIds : SweepStep(k)

\* Connections, client commands, the bus and the broadcasts, with no
\* shutdown
WsFilterNext ==
    \/ \E w \in CmdConns, cat \in Categories : HandleConnection(w, cat)
    \/ \E w \in CmdConns : ConnectRegister(w)
    \/ \E w \in CmdConns : HandlerWelcomed(w)
    \/ \E w \in CmdConns : ClientClose(w)
    \/ \E w \in CmdConns : HandlerDisconnect(w)
    \/ \E w \in CmdConns, new \in Categories : FilterCommand(w, new)
    \/ \E w \in CmdConns : StopResume(w)
    \/ \E w \in CmdConns : JoinResume(w)
    \/ \E cat \in EventCategories : WsPublish(cat)
    \/ \E k \in TaskIds : TaskCancelled(k)
    \/ \E k \in TaskIds : TaskBegin(k)
    \/ \E k \in TaskIds : TaskStarted(k)
    \/ \E k \in TaskIds : TaskEnd(k)
    \/ \E k \in TaskIds : TaskNext(k)
    \/ \E k \in TaskIds : SweepStep(k)

(***************************************************************************)
(* C9.  Category isolation and delivery: a bus event whose category is X   *)
(* is delivered only to connections registered under X or under "all": a   *)
(* connection registered only under a different category never receives    *)
(* it, and every connection registered under X or "all" (from the moment    *)
(* the event is taken from the bus until its handling ends, with its        *)
(* client still there) does receive it.                                     *)
(***************************************************************************)
EventReachesItsCategoryAndAll ==
    \A e \in EventIds :
        /\ \A w \in Conns : e \in received[w] => hcat[w] \in {evt[e].cat, "all"}
        /\ evt[e].state = "handled" => \A w \in evt[e].stable : e \in received[w]

(***************************************************************************)
(* C10.  Bus lifecycle coupling: the consumption task is started when a    *)
(* connection registers while no task is running (and it is stopped when   *)
(* the count of registered connections returns to zero).  Stated for the   *)
(* last registration: if no consumption task was live before it, one is    *)
(* live after it.                                                          *)
(***************************************************************************)
RegistrationStartsTask ==
    ~lastReg.liveBefore => lastReg.liveAfter

\* A topic's _consume_loop thread is running
LoopLive(t) == threadPc[t] \in {"check", "poll"}

(***************************************************************************)
(* C12.  Registering a handler for a topic that has no consumption loop    *)
(* starts one: while the bus is running, every topic with a registered     *)
(* handler has had a consumption loop started for it, also when the        *)
(* handler was added after start().                                        *)
(***************************************************************************)
HandlerTopicHasLoop ==
    \A t \in Topics : (busRunning /\ busHandlers[t] # {}) => threadPc[t] # "none"

(***************************************************************************)
(* C13.  After any sequence of add_topic_handler, start and stop calls,    *)
(* each topic has at most one consumer that is open and at most one live   *)
(* consumption thread.                                                     *)
(***************************************************************************)
AtMostOneLoopPerTopic ==
    \A t \in Topics :
        /\ openConsumers[t] <= 1
        /\ liveThreads[t] <= 1
        /\ liveThreads[t] = (IF LoopLive(t) THEN 1 ELSE 0)

\* The bus has been stopped and started again; one topic's loop is live,
\* another topic's loop has exited
WitnessLoopsAfterRestart ==
    /\ busRunning
    /\ ~poolOpen
    /\ \E t \in Topics : liveThreads[t] = 1 /\ openConsumers[t] = 1
    /\ \E t \in Topics : threadPc[t] = "exited"

(***************************************************************************)
(* C14.  Whenever start() completes and marks the bus running, every topic *)
(* that has a registered handler has a live consumption loop, including    *)
(* when start() is called again after an earlier stop().                   *)
(***************************************************************************)
StartMakesEveryLoopLive ==
    [][(~busRunning /\ busRunning')
         => \A t \in Topics : busHandlers'[t] # {} => LoopLive(t)']_vars

(***************************************************************************)
(* C15.  After stop() returns (and until the next start()), every          *)
(* consumption loop thread has exited, every consumer is closed and every  *)
(* handler invocation submitted earlier has finished; from then on the     *)
(* worker pool holds no invocation that has not finished, because nothing  *)
(* more is submitted to it.                                                *)
(***************************************************************************)
StoppedBusIsQuiescent ==
    /\ (~busRunning /\ ~busStopping /\ ~poolOpen)
          => \A t \in Topics : /\ ~LoopLive(t)
                               /\ liveThreads[t] = 0
                               /\ openConsumers[t] = 0
    /\ ~poolOpen => \A i \in 1..Len(tasks) : tasks[i].done

\* stop() has returned after a loop had run and submitted a message
WitnessStoppedAfterWork ==
    /\ ~busRunning
    /\ ~busStopping
    /\ ~poolOpen
    /\ Len(tasks) >= 1
    /\ \E t \in Topics : threadPc[t] = "exited"

\* The handler invocations that raised in the worker pool
RaisedInPool == Cardinality({i \in 1..Len(tasks) : tasks[i].raised})

\* MESSAGES_PROCESSED{result="error"}, all topics together
ErrorCount ==
    counters["marketplace-listings-new"]["error"] + counters["marketplace-alerts"]["error"]

\* The increments of the error counter made for undecodable payloads
\* (line 168) and for submissions the pool refused (line 156)
LoopErrors ==
    LET RECURSIVE Sum(_)
        Sum(i) == IF i = 0 THEN 0
                  ELSE (IF consumedLog[i].outcome = "error" THEN 1 ELSE 0)
                       + (consumedLog[i].attempted - consumedLog[i].submitted)
                       + Sum(i - 1)
    IN  Sum(Len(consumedLog))

(***************************************************************************)
(* C16.  An exception raised inside a registered handler while it executes *)
(* in the worker pool is counted in the error counter: the counter holds   *)
(* one increment for each such exception, besides the increments made by   *)
(* the loop itself.                                                        *)
(***************************************************************************)
HandlerExceptionCounted ==
    ErrorCount >= LoopErrors + RaisedInPool

\* The category sets of the registry that hold socket w
SetsOf(w) == {c \in Categories : active[c].present /\ w \in active[c].members}

\* The sockets that are open and between two commands: accepted and
\* registered, the client still there, the handler in its receive loop
OpenConns == {w \in Conns : hpc[w] = "receiving" /\ w \notin gone}

(***************************************************************************)
(* C11.  After any sequence of connects, filter commands, broadcasts and   *)
(* disconnects, every open connection is a member of exactly one category  *)
(* set of the registry.                                                    *)
(***************************************************************************)
OpenConnInExactlyOneSet ==
    \A w \in OpenConns : Cardinality(SetsOf(w)) = 1

(***************************************************************************)
(* C17.  broadcast(message, category) makes exactly one send attempt to    *)
(* each connection in the category's set, and every connection whose send  *)
(* fails is removed from the set after the sweep: for each broadcast that   *)
(* has ended, every socket that was in the set from the start of the call   *)
(* to its end was sent to, and no socket whose send failed is left in the   *)
(* set.                                                                     *)
(***************************************************************************)
BroadcastAttemptsEachMember ==
    \A b \in broadcasts :
        /\ b.stayed \subseteq b.visited
        /\ b.failed \cap b.after = {}

(***************************************************************************)
(* C18.  For each bus event, a connection registered under "all" receives  *)
(* that event exactly once: never twice, and once when the handling of the  *)
(* event has ended and the connection was registered, with its client       *)
(* there, throughout.                                                       *)
(***************************************************************************)
AllReceivesEventOnce ==
    \A e \in EventIds : \A w \in Conns :
        hcat[w] = "all" =>
            /\ deliveries[w][e] <= 1
            /\ (evt[e].state = "handled" /\ w \in evt[e].stable)
                   => deliveries[w][e] = 1

(***************************************************************************)
(* C19.  A filter command naming a new category moves the connection       *)
(* atomically from its current category set to the new one: from the       *)
(* command on, whatever another coroutine observes (a broadcast, a         *)
(* start/stop decision), the connection is in the set of the category the  *)
(* command named and in no other.                                          *)
(***************************************************************************)
FilterMovesConnection ==
    \A w \in Conns :
        (/\ hwant[w] # "none"
         /\ w \notin gone
         /\ hpc[w] \in {"receiving", "filter_stop_wait", "filter_join_wait"})
        => SetsOf(w) = {hwant[w]}

(***************************************************************************)
(* C20.  After close_all() completes, the bus consumption task is stopped, *)
(* every connection that was registered has been closed with the           *)
(* normal-closure code 1000, and the registry is empty.  Stated for the    *)
(* moment the call completes: no consumption task is live, and no socket   *)
(* the registry held is still open.                                        *)
(***************************************************************************)
CloseAllClosesEverything ==
    closer.pc = "done" => (~closer.taskLive /\ closer.left = {})

\* GET /ws/status: "categories" is the list of the registry's keys,
\* "connections" is _count_connections()
StatusCategories == {c \in Categories : active[c].present}

StatusConnections == CountConnections(active)

(***************************************************************************)
(* C21.  After any sequence of connects, disconnects and broadcasts, the   *)
(* status surface returns the total number of registered connections and   *)
(* lists exactly the categories that have at least one connection: no      *)
(* category with an empty set is listed.                                   *)
(***************************************************************************)
StatusListsNonEmptyCategories ==
    /\ StatusConnections = Cardinality(AllSockets(active))
    /\ StatusCategories = {c \in Categories : active[c].members # {}}

\* The place of a status on the path NEW -> PROCESSED -> MATCHED
StatusRank(status) ==
    CASE status = "NEW" -> 0
      [] status = "PROCESSED" -> 1
      [] OTHER -> 2

\* A change of status the lifecycle allows: forward along the path, or
\* from the path to ERROR or ARCHIVED; nothing leaves ERROR or ARCHIVED
Forward(from, to) ==
    /\ from \in {"NEW", "PROCESSED", "MATCHED"}
    /\ \/ to \in {"ERROR", "ARCHIVED"}
       \/ to \in {"PROCESSED", "MATCHED"} /\ StatusRank(to) > StatusRank(from)

(***************************************************************************)
(* C22.  Across any sequence of update_status and match_listing_to_alerts  *)
(* operations, a listing's status only moves forward along                 *)
(* NEW -> PROCESSED -> MATCHED, and once it is ERROR or ARCHIVED it never  *)
(* changes again.                                                          *)
(***************************************************************************)
StatusOnlyMovesForward ==
    [][\A l \in ListingIds :
          listingStatus'[l] # listingStatus[l]
             => Forward(listingStatus[l], listingStatus'[l])]_vars

(* C23: no message's offset is committed before the message has been
   processed by its handlers: every handler invocation submitted for a
   message at or below the committed offset of its topic has finished, so
   a crash loses no message. *)
NoCommitBeforeProcessed ==
    \A i \in DOMAIN tasks :
        tasks[i].pos <= committed[tasks[i].topic] => tasks[i].done

(* C24: the health callback is given true when start() has started the
   loops, false on every broker error a consumption loop sees and false
   when stop() completes; hence from the return of stop() until the next
   start() the value reported last is false. *)
HealthFollowsLifecycle ==
    [][/\ (~busRunning /\ busRunning') => health'
       /\ brokerErrors' # brokerErrors => ~health'
       /\ (busStopping /\ ~busStopping') => ~health'
       /\ (~busRunning' /\ ~busStopping') => ~health']_vars

WitnessStoppedAfterBrokerError ==
    /\ ~busRunning
    /\ ~busStopping
    /\ ~poolOpen
    /\ brokerErrors > 0
    /\ \E t \in Topics : offset[t] > 0
    /\ ~health

(* C28: registering a further handler for a topic never displaces a
   handler registered earlier for it, so every handler registered for the
   topic stays among those the loop invokes for each valid message. *)
HandlersNeverDisplaced ==
    [][\A t \in Topics : busHandlers[t] \subseteq busHandlers'[t]]_vars

(* C25: constructing a limiter with a non-positive rate or a non-positive
   capacity fails, so every limiter on which wait, is_allowed or consume
   can be called has a positive rate and a positive capacity. *)
ConstructedLimiterIsPositive ==
    cfg.kind \in LimiterKinds => cfg.rate > 0 /\ Capacity > 0

(* C29: every allowed access consumes one token, the first access that
   creates the key's state included: while no time has passed since a key
   with capacity C was created, at most C calls of is_allowed have returned
   true for it, and once one has returned false exactly C have. *)
FreshKeyAllowsExactlyCapacity ==
    \A c \in Clients :
        (cfg.kind = "api" /\ api_tokens[c].present
                          /\ clock = apiCalls[c].created) =>
            /\ apiCalls[c].allowed * TokenUnit <= Capacity
            /\ apiCalls[c].refused => apiCalls[c].allowed * TokenUnit = Capacity

(* C27: when handle_connection has returned for a connection, the
   connection is a member of no category set, whatever filter commands it
   sent while it was open; hence when every handler has returned the
   connection count is zero. *)
ReturnedHandlerLeavesNoMember ==
    /\ \A w \in Conns : hpc[w] = "finished" => w \notin AllSockets(active)
    /\ (\A w \in Conns : hpc[w] \in {"idle", "finished"})
           => CountConnections(active) = 0

WitnessReturnedAfterFilter ==
    \E w \in Conns :
        /\ hpc[w] = "finished"
        /\ hwant[w] \notin {"none", hcat[w]}
        /\ \E v \in Conns \ {w} : v \in AllSockets(active)

\* No connect and no disconnect is in flight: every handler is outside
\* both calls
Settled ==
    \A w \in Conns : hpc[w] \in {"idle", "receiving", "finished"}

(* C26: under any interleaving of connect and disconnect calls at most one
   consumption task exists at a time, and once every connect and
   disconnect in flight has completed the consumption task is running
   whenever a connection is registered. *)
OneTaskAndRunningWhenRegistered ==
    /\ Cardinality({k \in TaskIds : taskPc[k] \in LiveStates}) <= 1
    /\ (Settled /\ CountConnections(active) > 0) => AnyTaskLive

(* C30: outside an executing _start_kafka_consumer or _stop_kafka_consumer
   call the running flag is true exactly when a consumption task exists
   that has not finished. *)
RunningIffLiveTask ==
    (\A w \in Conns : hpc[w] \notin {"stop_wait", "join_wait",
                                     "filter_stop_wait", "filter_join_wait"})
        => (wsRunning <=> AnyTaskLive)

\* name is one of the elements of the list
InList(name, list) == \E i \in 1..Len(list) : list[i] = name

(* C36: the price criterion passes iff (min_price is unset or the
   listing's price >= min_price) and (max_price is unset or the price <=
   max_price), bounds inclusive; with no price on the listing every price
   bound the alert specifies fails.  Stated on the lists as the call
   leaves them: each bound the alert specifies is recorded as passed
   exactly when the listing has a price within it, as failed otherwise,
   and an unset bound is recorded in neither list. *)
PriceCriterionInclusive ==
    evaluation.done =>
        LET l == evaluation.listing
            a == evaluation.alert
            m == evaluation.locals.matches
            n == evaluation.locals.non_matches
            hasPrice == l.price.k = "val"
            minOk == hasPrice /\ l.price.v >= a.min_price.v
            maxOk == hasPrice /\ l.price.v <= a.max_price.v
        IN  /\ InList("min_price", m) <=> (a.min_price.k = "val" /\ minOk)
            /\ InList("min_price", n) <=> (a.min_price.k = "val" /\ ~minOk)
            /\ InList("max_price", m) <=> (a.max_price.k = "val" /\ maxOk)
            /\ InList("max_price", n) <=> (a.max_price.k = "val" /\ ~maxOk)

WitnessPriceOnTheBound ==
    /\ evaluation.done
    /\ evaluation.alert.min_price = Num(100)
    /\ evaluation.alert.max_price = Num(1000)
    /\ evaluation.listing.price = Num(100)
    /\ evaluation.result.is_match
    /\ InList("min_price", evaluation.result.matching_criteria)
    /\ InList("max_price", evaluation.result.matching_criteria)

\* The category criterion of the claims: the listing's category, or the
\* category its enrichment suggests, is the alert's, ignoring case
CategoryAgrees(l, a) ==
    \/ l.category.k = "val" /\ Lower(l.category.v) = Lower(a.category.v)
    \/ l.suggested.k = "val" /\ Lower(l.suggested.v) = Lower(a.category.v)

(* C37: the category criterion passes iff the listing's category equals
   the alert's ignoring case or the listing's enrichment-suggested category
   equals it, and whenever it passes the matched criteria contain the name
   "category". *)
CategoryPassIsNamedCategory ==
    (evaluation.done /\ evaluation.alert.category.k = "val") =>
        LET l == evaluation.listing
            a == evaluation.alert
            m == evaluation.locals.matches
            n == evaluation.locals.non_matches
        IN  /\ InList("category", n) <=> ~CategoryAgrees(l, a)
            /\ CategoryAgrees(l, a) => InList("category", m)

\* The search-term criterion of the claims, on the texts of the listing:
\* the three tiers, each tried when the one before it has not passed
TermTiersPass(title, description, term, keywords) ==
    LET words == Split(term)
        present == {i \in 1..Len(words) :
                       IsSubstr(words[i], title) \/ IsSubstr(words[i], description)}
    IN  \/ IsSubstr(term, title) \/ IsSubstr(term, description)
        \/ 2 * Cardinality(present) > Len(words)
        \/ \E i \in 1..Len(keywords) : IsSubstr(keywords[i], term)

SearchTermNames == {"search_term_exact", "search_term_partial", "search_term_keyword"}

(* C38: the search_term criterion passes iff the lower-cased term is a
   substring of the lower-cased title or description, or else strictly
   more than half of the term's words each occur in the title or the
   description, or else some enrichment keyword is a substring of the
   term; otherwise it fails. *)
SearchTermPassesByTiers ==
    (evaluation.done /\ evaluation.alert.search_term.k = "val") =>
        LET l == evaluation.listing
            pass == TermTiersPass(TextOf(l.title), TextOf(l.description),
                                  Lower(evaluation.alert.search_term.v),
                                  l.keywords)
            m == evaluation.result.matching_criteria
            n == evaluation.result.non_matching_criteria
        IN  /\ (\E x \in SearchTermNames : InList(x, m)) <=> pass
            /\ InList("search_term", n) <=> ~pass

(* C39: the location criterion passes iff the listing has a location
   and, ignoring case, the alert's location contains the listing's or the
   listing's contains the alert's; a listing with no location fails every
   alert that specifies a location. *)
LocationPassesByContainment ==
    (evaluation.done /\ evaluation.alert.location.k = "val") =>
        LET l == evaluation.listing
            al == Lower(evaluation.alert.location.v)
            pass == /\ l.location.k = "val"
                    /\ \/ IsSubstr(al, Lower(l.location.v))
                       \/ IsSubstr(Lower(l.location.v), al)
        IN  /\ InList("location", evaluation.result.matching_criteria) <=> pass
            /\ InList("location", evaluation.result.non_matching_criteria) <=> ~pass

\* The names a criterion can contribute to the output
NamesOf(c) ==
    CASE c = "category" -> {"category", "suggested_category"}
      [] c = "search_term" -> SearchTermNames \cup {"search_term"}
      [] OTHER -> {c}

\* How many entries of the list are names of the set
CountIn(list, names) == Cardinality({i \in 1..Len(list) : list[i] \in names})

(* C40: for every listing and alert, each criterion the alert specifies
   contributes exactly one name to exactly one of matching_criteria and
   non_matching_criteria, the two are disjoint, and a criterion the alert
   does not specify contributes to neither. *)
EachSpecifiedCriterionReportedOnce ==
    evaluation.done =>
        LET m == evaluation.result.matching_criteria
            n == evaluation.result.non_matching_criteria
        IN  /\ \A c \in Criteria :
                  CountIn(m, NamesOf(c)) + CountIn(n, NamesOf(c)) =
                      IF c \in Specified(evaluation.alert) THEN 1 ELSE 0
            /\ \A i \in 1..Len(m) : ~InList(m[i], n)

(* C31: for every alert that match_listing_to_alerts returns as matching
   a listing, the listing's status is set to MATCHED and the alert's
   last_matched_at is set to the time of that evaluation: stated for the
   step in which the call returns. *)
MatchSetsStatusAndTime ==
    [][report' # report =>
          /\ report'.alerts # {} => listingStatus'[report'.listing] = "MATCHED"
          /\ \A r \in alertsTable' :
                r.id \in report'.alerts => r.last_matched_at = report'.at]_vars

\* The wait() calls that have returned by the present time: those that
\* did not sleep and those whose sleep has ended
ReturnedByNow ==
    Cardinality({i \in 1..Len(waitLog) : waitLog[i].at + waitLog[i].wait <= clock})

(* C32: for any number of concurrent callers of wait() on one limiter
   with rate R and burst C, the number of wait() calls that have returned
   by time t after construction never exceeds C + R*t: waiters that arrive
   while the bucket is empty are staggered, not released together. *)
WaitReturnsWithinBudget ==
    ReturnedByNow * TokenUnit <= Capacity + cfg.rate * clock

WitnessWaitersStaggered ==
    /\ \E i, j \in 1..Len(waitLog) :
          /\ i < j
          /\ waitLog[i].at = waitLog[j].at
          /\ waitLog[i].wait > 0
          /\ waitLog[j].wait >= waitLog[i].wait + TokenUnit \div cfg.rate
    /\ \A w \in Waiters : wpc[w] = "idle"
    /\ ReturnedByNow = Len(waitLog)

(* C33: no connect, disconnect or filter running concurrently with a
   broadcast changes the category set the broadcast is iterating, or
   deletes that category's entry, between the start of the sweep and the
   removal of the failed sockets after it: in every step during which a
   sweep of a category goes on, that category's entry stays as it is, so
   the sweep never ends in an exception. *)
SweptSetIsNotChanged ==
    [][\A k \in TaskIds :
          (/\ taskPc[k] = "sweeping" /\ taskPc'[k] = "sweeping"
           /\ sweep'[k].ev = sweep[k].ev /\ sweep'[k].cat = sweep[k].cat)
              => /\ active'[sweep[k].cat] = active[sweep[k].cat]
                 /\ ~sweep'[k].stale]_vars

(* C34: get_retry_after(key) leaves the key's token state as is_allowed
   left it, and after a refusal it returns a duration d >= 0 such that,
   when no other request for the key arrives meanwhile, the is_allowed(key)
   call made d seconds after the refusal is allowed. *)
RetryAfterIsEnough ==
    [][\A c \in Clients :
          /\ (apiCalls'[c].last = "refused" /\ apiCalls'[c].hintAt = clock
              /\ api_tokens'[c] # api_tokens[c]) =>
                 /\ apiCalls'[c].hint >= 0
                 /\ api_tokens'[c] =
                      [present |-> TRUE, last |-> clock,
                       tok |-> Min(Capacity,
                                   api_tokens[c].tok
                                   + (clock - api_tokens[c].last) * cfg.rate)]
          /\ (apiCalls[c].last = "refused" /\ api_tokens'[c] # api_tokens[c]
              /\ clock = apiCalls[c].hintAt + apiCalls[c].hint) =>
                 apiCalls'[c].allowed = apiCalls[c].allowed + 1]_vars

WitnessRetriedAfterTheHint ==
    \E c \in Clients :
        /\ cfg.kind = "api"
        /\ apiCalls[c].last = "allowed"
        /\ apiCalls[c].hint > 0
        /\ api_tokens[c].last = apiCalls[c].hintAt + apiCalls[c].hint

----------------------------------------------------------------------------
(* The WebSocket routes (services/api/src/routes/websocket_routes.py) and  *)
(* the categories under which the consumption loop of the manager          *)
(* broadcasts each message.  A broadcast is one step here: its             *)
(* interleavings with connects and disconnects are the subject of the      *)
(* WebSocketManager section above.                                         *)

AlertsTopic == "marketplace.alerts.triggered"
RouteTopics == {"marketplace.listings.new", AlertsTopic}
Users == {"u1", "u2"}
RouteConns == {"r1", "r2", "r3"}
MaxRouted == 2

\* The {category} of a /ws/listings/{category} URL
UrlCategories == {"electronics", "all"}

\* alerts_websocket: handle_connection(websocket, f"alerts:{user.id}")
AlertsCategory(u) == "alerts:" \o u

RouteCategories ==
    UrlCategories \cup {"alerts"} \cup {AlertsCategory(u) : u \in Users}

\* _kafka_consumer_loop: the category it determines from a message
MessageCategory(m) ==
    IF m.topic = AlertsTopic THEN "alerts" ELSE m.category

\* The categories the loop broadcasts a message under: that one, then "all"
BroadcastCategories(m) == {MessageCategory(m), "all"}

\* The sockets registered through /ws/alerts
AlertSockets(table) == UNION {table[AlertsCategory(u)] : u \in Users}

\* connect: the socket joins its category's set
Registered(table, w, cat) == [table EXCEPT ![cat] = @ \cup {w}]

\* GET /ws/alerts by an authenticated user
AlertsWebsocket(w, u) ==
    /\ routeOf[w].state = "idle"
    /\ routeOf' = [routeOf EXCEPT
                     ![w] = [state |-> "open", cat |-> AlertsCategory(u)]]
    /\ routeTable' = Registered(routeTable, w, AlertsCategory(u))
    /\ UNCHANGED <<routeQueue, routeNext, routeGot, routeHandled>>
    /\ UNCHANGED otherRoute

\* GET /ws/listings/{category}
ListingsWebsocket(w, cat) ==
    /\ routeOf[w].state = "idle"
    /\ routeOf' = [routeOf EXCEPT ![w] = [state |-> "open", cat |-> cat]]
    /\ routeTable' = Registered(routeTable, w, cat)
    /\ UNCHANGED <<routeQueue, routeNext, routeGot, routeHandled>>
    /\ UNCHANGED otherRoute

\* The client goes away: handle_connection ends in disconnect
RouteDisconnect(w) ==
    /\ routeOf[w].state = "open"
    /\ routeOf' = [routeOf EXCEPT ![w].state = "closed"]
    /\ routeTable' = [routeTable EXCEPT ![routeOf[w].cat] = @ \ {w}]
    /\ UNCHANGED <<routeQueue, routeNext, routeGot, routeHandled>>
    /\ UNCHANGED otherRoute

\* A producer publishes on one of the topics the loop subscribes to
RoutePublish(topic, cat) ==
    /\ routeNext <= MaxRouted
    /\ topic = AlertsTopic => cat = "all"
    /\ routeQueue' = Append(routeQueue,
                            [id |-> routeNext, topic |-> topic, category |-> cat])
    /\ routeNext' = routeNext + 1
    /\ UNCHANGED <<routeTable, routeOf, routeGot, routeHandled>>
    /\ UNCHANGED otherRoute

\* The loop, which runs while some connection is open, takes a message and
\* broadcasts it under its category and under "all"
RouteConsume ==
    /\ routeQueue # <<>>
    /\ \E w \in RouteConns : routeOf[w].state = "open"
    /\ LET m == Head(routeQueue)
           receivers == UNION {routeTable[c] : c \in BroadcastCategories(m)}
       IN  /\ routeGot' = [w \in RouteConns |->
                             IF w \in receivers THEN routeGot[w] \cup {m.id}
                             ELSE routeGot[w]]
           /\ routeHandled' = routeHandled \cup
                 {[id |-> m.id, topic |-> m.topic,
                   alertSockets |-> AlertSockets(routeTable)]}
    /\ routeQueue' = Tail(routeQueue)
    /\ UNCHANGED <<routeTable, routeOf, routeNext>>
    /\ UNCHANGED otherRoute

RoutePark ==
    /\ routeTable = [c \in RouteCategories |-> {}]
    /\ routeOf = [w \in RouteConns |-> [state |-> "idle", cat |-> "all"]]
    /\ routeQueue = <<>>
    /\ routeNext = 1
    /\ routeGot = [w \in RouteConns |-> {}]
    /\ routeHandled = {}

RouteNext ==
    \/ \E w \in RouteConns, u \in Users : AlertsWebsocket(w, u)
    \/ \E w \in RouteConns, cat \in UrlCategories : ListingsWebsocket(w, cat)
    \/ \E w \in RouteConns : RouteDisconnect(w)
    \/ \E topic \in RouteTopics, cat \in UrlCategories : RoutePublish(topic, cat)
    \/ RouteConsume

(* C35: every event consumed from the alerts-triggered topic is delivered
   to the connections opened through /ws/alerts, which are registered under
   alerts:{user_id}: once the loop has handled such an event, every socket
   that was registered through /ws/alerts at that moment has been sent it. *)
AlertEventsReachAlertSockets ==
    \A h \in routeHandled :
        h.topic = AlertsTopic =>
            \A w \in h.alertSockets : h.id \in routeGot[w]

----------------------------------------------------------------------------
(* The specifications, one per subsystem.                                  *)

\* The limiters, constructed and left alone
LimPark ==
    /\ LimInit
    /\ cfg = [kind |-> "distributed", rate |-> 1, burst |-> <<>>]

InitLimiter ==
    /\ LimInit
    /\ cfg.kind \in LimiterKinds
    /\ DistPark
    /\ MatchPark
    /\ RepoPark
    /\ BusPark
    /\ WsPark
    /\ RoutePark

SpecLimiter == InitLimiter /\ [][LimNext]_vars

\* The scraper's limiter
InitLimiterWait ==
    /\ LimInit
    /\ cfg.kind = "scraper"
    /\ DistPark
    /\ MatchPark
    /\ RepoPark
    /\ BusPark
    /\ WsPark
    /\ RoutePark

SpecLimiterWait == InitLimiterWait /\ [][LimWaitNext]_vars

\* The limiters constructed with any arguments
InitLimiterAny ==
    /\ LimInitAny
    /\ DistPark
    /\ MatchPark
    /\ RepoPark
    /\ BusPark
    /\ WsPark
    /\ RoutePark

SpecLimiterAny == InitLimiterAny /\ [][LimAnyNext]_vars

InitDist ==
    /\ LimInit
    /\ cfg.kind = "distributed"
    /\ DistPark
    /\ MatchPark
    /\ RepoPark
    /\ BusPark
    /\ WsPark
    /\ RoutePark

SpecDist == InitDist /\ [][DistNext]_vars

InitMatcher ==
    /\ LimPark
    /\ DistPark
    /\ MatchInit
    /\ RepoPark
    /\ BusPark
    /\ WsPark
    /\ RoutePark

SpecMatcher == InitMatcher /\ [][Evaluate]_vars

InitRepo ==
    /\ LimPark
    /\ DistPark
    /\ MatchPark
    /\ RepoPark
    /\ BusPark
    /\ WsPark
    /\ RoutePark

SpecRepo == InitRepo /\ [][RepoNext]_vars

InitBus ==
    /\ LimPark
    /\ DistPark
    /\ MatchPark
    /\ RepoPark
    /\ BusPark
    /\ WsPark
    /\ RoutePark

SpecBus == InitBus /\ [][BusNext]_vars

SpecBusPlain == InitBus /\ [][BusPlainNext]_vars

SpecBusOps == InitBus /\ [][BusOpsNext]_vars

SpecBusHealth == InitBus /\ [][BusHealthNext]_vars

\* The loop threads and the pool workers keep running
SpecBusLive ==
    /\ InitBus
    /\ [][BusNext]_vars
    /\ \A t \in Topics : WF_vars(LoopCheck(t))
    /\ \A t \in Topics : WF_vars(LoopPollNone(t))
    /\ \A t \in Topics : WF_vars(LoopPollMessage(t))
    /\ \A i \in 1..MaxPublished : WF_vars(\E raises \in BOOLEAN : WorkerRun(i, raises))

InitWs ==
    /\ LimPark
    /\ DistPark
    /\ MatchPark
    /\ RepoPark
    /\ BusPark
    /\ WsPark
    /\ RoutePark

SpecWs == InitWs /\ [][WsNext]_vars

SpecWsCmd == InitWs /\ [][WsCmdNext]_vars

SpecWsFilter == InitWs /\ [][WsFilterNext]_vars

InitRoutes ==
    /\ LimPark
    /\ DistPark
    /\ MatchPark
    /\ RepoPark
    /\ BusPark
    /\ WsPark
    /\ RoutePark

SpecRoutes == InitRoutes /\ [][RouteNext]_vars

=============================================================================
